---- MODULE Spec2Model ----
(***************************************************************************)
(* The W3PK session orchestrator of genji-passkey: the React context       *)
(* provider that wraps the w3pk passkey SDK.                               *)
(*                                                                         *)
(* Two builds of the provider are in the repository:                       *)
(*   "part_004"  src/unnamed/part_004 (getAddress, stealth operations,     *)
(*               fire-and-forget persistent-store cleanup in logout,       *)
(*               social recovery delegated to the SDK);                    *)
(*   "W3PK.tsx"  src/src/context/W3PK.tsx, lines 650-1589 (awaited         *)
(*               cleanup in logout, inline Shamir social recovery).        *)
(* The session operations are modelled from part_004; where W3PK.tsx       *)
(* differs (logout, the probe, social recovery) it has its own actions.    *)
(*                                                                         *)
(* The w3pk SDK, IndexedDB and secrets.js are the environment: every SDK   *)
(* promise settles with success or with one of SdkErrors, chosen freely.   *)
(***************************************************************************)
EXTENDS Integers, Sequences, FiniteSets, TLC

(***************************************************************************)
(* Values                                                                  *)
(***************************************************************************)
NoUser == "none"
Users == {"alice"}

Builds == {"part_004", "W3PK.tsx"}

\* A thrown value.  kind "Error": instanceof Error (has name and message);
\* kind "object": a plain object with name and message; kind "value": any
\* other thrown value.  msg is the message as a sequence of words;
\* String.prototype.includes is matched on whole words (Includes).
Err(kind, name, msg) == [kind |-> kind, name |-> name, msg |-> msg]
NoErr == Err("none", "", <<>>)

eNotAuth == Err("Error", "Error", <<"Not", "authenticated">>)
eMustAuth == Err("Error", "Error", <<"Must", "be", "authenticated">>)
eLogin == Err("Error", "Error", <<"Please", "login", "first">>)
eDerive == Err("Error", "Error", <<"Failed", "to", "derive", "wallet">>)
eGetAddr == Err("Error", "Error", <<"Failed", "to", "get", "address">>)
eCancel == Err("Error", "NotAllowedError", <<"The", "operation", "either", "timed", "out", "or", "was", "not", "allowed">>)
eCancelLogin == Err("Error", "Error", <<"NotAllowedError", "during", "login">>)
eOther == Err("Error", "Error", <<"Invalid", "password">>)
eNotAvail == Err("Error", "Error", <<"Passkey", "not", "available", "on", "this", "device">>)
eValue == Err("value", "", <<>>)

\* What a rejected SDK promise may carry.
SdkErrors == {eNotAuth, eMustAuth, eLogin, eDerive, eGetAddr, eCancel, eCancelLogin, eOther, eNotAvail, eValue}

\* Errors the provider itself creates.
eTimeout == Err("Error", "Error", <<"Registration", "timed", "out">>)
eNoUser == Err("Error", "Error", <<"Not", "authenticated.", "Please", "log", "in", "first.">>)
eUserNotAuth == Err("Error", "Error", <<"User", "not", "authenticated.">>)
ePassword == Err("Error", "Error", <<"Password", "is", "required", "for", "social", "recovery", "setup">>)
eIdb == Err("Error", "TypeError", <<"indexedDB", "is", "not", "available">>)

\* How an SDK promise settles: ok with the user object the SDK reports
\* (NoUser: none), or rejected with err.
Ok(u) == [ok |-> TRUE, user |-> u, err |-> NoErr]
Fail(e) == [ok |-> FALSE, user |-> NoUser, err |-> e]
Failures == {Fail(e) : e \in SdkErrors}
\* login(): a wallet on the device gives a session and a user object; a
\* passkey without a wallet gives "authenticated without wallet".
LoginResults == {Ok(u) : u \in Users \cup {NoUser}} \cup Failures
RegisterResults == {Ok(u) : u \in Users} \cup Failures
OpResults == {Ok(NoUser)} \cup Failures

(***************************************************************************)
(* Error classification                                                    *)
(***************************************************************************)
Includes(msg, sub) ==
  \E i \in 1..(Len(msg) - Len(sub) + 1) : SubSeq(msg, i, i + Len(sub) - 1) = sub

isUserCancelledError(e) ==
  /\ e.kind \in {"Error", "object"}
  /\ \/ e.name = "NotAllowedError"
     \/ Includes(e.msg, <<"NotAllowedError">>)
     \/ Includes(e.msg, <<"timed", "out">>)
     \/ Includes(e.msg, <<"not", "allowed">>)

isPasskeyNotAvailable(e) ==
  /\ e.kind = "Error"
  /\ \/ Includes(e.msg, <<"not", "available", "on", "this", "device">>)
     \/ Includes(e.msg, <<"not", "available">>)
     \/ Includes(e.msg, <<"restore", "your", "wallet", "from", "a", "backup">>)

\* The last retry marker of deriveWallet / getAddress.
OwnFailure(op) ==
  IF op = "deriveWallet" THEN <<"Failed", "to", "derive", "wallet">>
  ELSE <<"Failed", "to", "get", "address">>

\* deriveWallet, getAddress: the condition of the forced login and retry.
DeriveNeedsLogin_never(op, e) == FALSE

DeriveNeedsLogin(op, e) ==
  /\ e.kind = "Error"
  /\ \/ Includes(e.msg, <<"Not", "authenticated">>)
     \/ Includes(e.msg, <<"login">>)
     \/ Includes(e.msg, OwnFailure(op))

\* getBackupStatus, createBackup: the condition of the forced login and retry.
BackupNeedsLogin_always(e) == e.kind = "Error"

BackupNeedsLogin(e) ==
  /\ e.kind = "Error"
  /\ \/ Includes(e.msg, <<"Must", "be", "authenticated">>)
     \/ Includes(e.msg, <<"login">>)


(***************************************************************************)
(* State                                                                   *)
(***************************************************************************)
Callers == {"ui"}

VARIABLES
  build,            \* which provider source is running
  isAuthenticated,  \* useState(false)
  user,             \* useState(null)
  isLoading,        \* useState(false)
  isMounted,        \* useState(false)
  sdkSession,       \* w3pk.hasActiveSession()
  sdkUser,          \* w3pk.user
  idb,              \* IndexedDB 'Web3PasskeyPersistentSessions' / 'sessions'
  calls,            \* one provider call per caller: position and history
  rec,              \* checkExistingAuth: position and history
  sdkLogouts,       \* w3pk.logout() promises not yet settled
  idbClears,        \* part_004 logout: open requests whose onsuccess is due
  abandoned,        \* an SDK registration abandoned by the 45 s timeout
  logoutsInRow,     \* completed logout() calls since any other activity
  missing,          \* optional methods the installed SDK build lacks
  authState,        \* W3PK.tsx, first provider: localStorage 'w3pk_auth_state'
  verification,     \* part_001: the BuildVerification widget
  header,           \* customize.js: the registration form of the header
  backupPage,       \* route.ts: the restore-from-backup flow of the page
  wallet,           \* the user's wallet inside the SDK: mnemonic and address
  config,           \* localStorage 'w3pk_social_recovery'
  sr                \* W3PK.tsx social recovery: the last call

vars == <<build, isAuthenticated, user, isLoading, isMounted, sdkSession, sdkUser,
          idb, calls, rec, sdkLogouts, idbClears, abandoned, logoutsInRow, missing, authState, verification, header, backupPage, wallet, config, sr>>

social == <<wallet, config, sr>>
provider == <<build, verification, isAuthenticated, user, isLoading, isMounted, sdkSession, sdkUser,
              idb, calls, rec, sdkLogouts, idbClears, abandoned, logoutsInRow, missing, authState>>

\* Caps on the work left pending by calls that have already returned.
MaxPending == 1

Idle ==
  [op |-> "none", pc |-> "idle", out |-> "none", err |-> NoErr, opErr |-> NoErr,
   nOp |-> 0, nLogin |-> 0, nForced |-> 0, nExtend |-> 0, nFail |-> 0, nCheck |-> 0,
   loginsAtFail |-> 0, loginsAtOp |-> 0, toasts |-> {}, hadSession |-> FALSE, pwd |-> ""]

\* IndexedDB: api "none" (window.indexedDB unavailable), "absent" (no
\* database or no 'sessions' store), "store" (the store exists).
Idb(api, sessions) == [api |-> api, sessions |-> sessions]
IdbStates == {Idb("none", {}), Idb("absent", {}), Idb("store", {})} \cup {Idb("store", {u}) : u \in Users}

\* objectStore.count() > 0
HasPersistentSession(db) == db.api = "store" /\ db.sessions # {}

\* The SDK stores a persistent session at login / register
\* (persistentSession.enabled).
Persist(db, u) ==
  IF db.api = "none" \/ u = NoUser THEN db ELSE Idb("store", db.sessions \cup {u})

\* objectStore.clear()
Cleared(db) == IF db.api = "store" THEN Idb("store", {}) ELSE db

(***************************************************************************)
(* handleAuthStateChanged: the only writer of (isAuthenticated, user)      *)
(***************************************************************************)
handleAuthStateChanged_flagOnly(isAuth, w3pkUser) ==
  [isAuthenticated |-> isAuth, user |-> w3pkUser]

handleAuthStateChanged(isAuth, w3pkUser) ==
  IF isAuth /\ w3pkUser # NoUser
  THEN [isAuthenticated |-> TRUE, user |-> w3pkUser]
  ELSE [isAuthenticated |-> FALSE, user |-> NoUser]

\* The context value: isAuthenticated: isMounted && isAuthenticated.
ExposedIsAuthenticated == isMounted /\ isAuthenticated

\* The SDK calls onAuthStateChanged(isAuth, u).
Callback(isAuth, u) ==
  /\ isAuthenticated' = handleAuthStateChanged(isAuth, u).isAuthenticated
  /\ user' = handleAuthStateChanged(isAuth, u).user

\* An SDK login() / register() promise settles with r: on success the SDK
\* holds the session and the user, stores the persistent session and reports
\* through onAuthStateChanged before the promise resolves.
SdkAuthSettled(r) ==
  IF r.ok
  THEN /\ sdkSession' = (r.user # NoUser)
       /\ sdkUser' = r.user
       /\ idb' = Persist(idb, r.user)
       /\ Callback(TRUE, r.user)
  ELSE UNCHANGED <<sdkSession, sdkUser, idb, isAuthenticated, user>>

\* Ethereum addresses: the hex digits and whether the text is in checksum
\* (mixed) case; toLowerCase drops the case.
Address(hex, checksum) == [hex |-> hex, checksum |-> checksum]
NoAddress == Address("", FALSE)
toLowerCase(a) == [a EXCEPT !.checksum = FALSE]

\* The text stored under 'w3pk_auth_state': none, a text JSON.parse rejects,
\* or the JSON of an AuthStateData object.
NoAuthState == [kind |-> "none", isAuthenticated |-> FALSE, user |-> NoUser]

\* BuildVerification before its effect has run: the useState and useRef
\* initial values.  isVerified is "null", "true" or "false"; dependency is
\* packageJson.dependencies['w3pk'] and registry the contents of the
\* on-chain registry, texts being sequences of characters; effects is how
\* often React is still to run the mount effect, runs how often verifyBuild
\* ran, failed whether an awaited call was rejected.
NoVerification ==
  [pc |-> "idle", isVerifying |-> TRUE, isVerified |-> "null", currentHash |-> "",
   trustedHash |-> "", installedVersion |-> <<>>, error |-> "", hasVerified |-> FALSE,
   effects |-> 0, runs |-> 0, failed |-> FALSE, dependency |-> <<>>, registry |-> <<>>]

NoWallet == [mnemonic |-> "", address |-> NoAddress]
NoConfig == [threshold |-> 0, totalGuardians |-> 0, guardians |-> <<>>, ethereumAddress |-> NoAddress]
NoCall ==
  [op |-> "none", out |-> "none", err |-> NoErr, toasts |-> {}, input |-> <<>>,
   split |-> "none", pwd |-> "", mnemonic |-> "", derived |-> NoAddress,
   threshold |-> 0, total |-> 0,
   guardian |-> [id |-> 0, shareEncrypted |-> [of |-> "", id |-> 0]],
   shareCode |-> [guardianId |-> 0, guardianIndex |-> 0, totalGuardians |-> 0,
                  threshold |-> 0, share |-> [of |-> "", id |-> 0],
                  ethereumAddress |-> NoAddress]]

\* The registration form of the header: the text of the username field, the
\* field's invalid flag, and what handleRegister did with the text it saw
\* (input), a string being the sequence of its characters.
NoForm ==
  [username |-> <<>>, isUsernameInvalid |-> FALSE, isRegistering |-> FALSE,
   clicks |-> 0, input |-> <<>>, registered |-> <<>>, toasts |-> {}]

\* A backup file as its text is seen by JSON.parse: not JSON ("text"), or the
\* JSON of null, of a non-object value ("scalar") or of an object; of an
\* object each property this flow reads is absent, falsy (such as "" or
\* null) or truthy.  kind "none" is no selected file, "empty" the empty text.
NoFile ==
  [kind |-> "none", rpe |-> "absent", version |-> "absent", encrypted |-> "absent",
   mnemonic |-> "absent"]

\* The restore flow of the page: the selected file, the modal, isRestoring,
\* the position of handleRestorePasswordSubmit and what it passed to
\* restoreFromBackup.
NoRestore ==
  [selectedBackupFile |-> NoFile, showRestorePasswordModal |-> FALSE,
   isRestoring |-> FALSE, pc |-> "idle", payload |-> NoFile, restored |-> <<>>,
   toasts |-> {}]

Init ==
  /\ build \in Builds
  /\ verification = NoVerification
  /\ isAuthenticated = FALSE
  /\ user = NoUser
  /\ isLoading = FALSE
  /\ isMounted = FALSE
  /\ sdkSession = FALSE
  /\ sdkUser = NoUser
  /\ idb \in IdbStates
  /\ calls = [c \in Callers |-> Idle]
  /\ rec = [pc |-> "unmounted", probes |-> 0, logins |-> 0, timedOut |-> FALSE, restoreFailed |-> FALSE]
  /\ sdkLogouts = 0
  /\ idbClears = 0
  /\ abandoned = FALSE
  /\ logoutsInRow = 0
  /\ missing = {}
  /\ authState = NoAuthState
  /\ header = NoForm
  /\ backupPage = NoRestore
  /\ wallet = NoWallet
  /\ config = NoConfig
  /\ sr = NoCall

\* A caller may start a call when its previous one has returned.
Free(c) == calls[c].pc \in {"idle", "done"}

Begin(c, op) == [Idle EXCEPT !.op = op, !.hadSession = sdkSession]

\* The call returns or throws.
Finish(call, out, err, toast) ==
  [call EXCEPT !.pc = "done", !.out = out, !.err = err, !.toasts = @ \cup toast]

\* An SDK promise of the call was rejected.
Failed(call, e) == [call EXCEPT !.nFail = @ + 1]


\* The first failure of the underlying SDK operation is remembered.
OpFailed(call, e) ==
  Failed(IF call.opErr = NoErr THEN [call EXCEPT !.opErr = e, !.loginsAtFail = call.nLogin] ELSE call, e)

\* What an action of a call leaves alone besides the session and isLoading.
CallStep ==
  /\ logoutsInRow' = 0
  /\ UNCHANGED <<build, verification, isMounted, rec, sdkLogouts, idbClears, abandoned, missing, authState, header, backupPage, social>>

SessionUnchanged == UNCHANGED <<isAuthenticated, user, sdkSession, sdkUser, idb>>

(***************************************************************************)
(* Mount and checkExistingAuth                                             *)
(***************************************************************************)
\* useEffect(() => setIsMounted(true), [])
Mount ==
  /\ rec.pc = "unmounted"
  /\ isMounted' = TRUE
  /\ rec' = [rec EXCEPT !.pc = "mounted"]
  /\ logoutsInRow' = 0
  /\ UNCHANGED <<build, verification, isAuthenticated, user, isLoading, sdkSession, sdkUser, idb, calls,
                 sdkLogouts, idbClears, abandoned, missing, authState, header, backupPage, social>>

\* if (w3pk.hasActiveSession() && w3pk.user)
HasInMemorySession_never == FALSE

HasInMemorySession == sdkSession /\ sdkUser # NoUser

\* checkExistingAuth up to its first await: adopt the in-memory session, or
\* start the persistent-store probe.  In W3PK.tsx the probe rejects at once
\* when indexedDB is unavailable, and the outer catch logs out.
checkExistingAuth ==
  /\ rec.pc = "mounted"
  /\ IF HasInMemorySession
     THEN /\ Callback(TRUE, sdkUser)
          /\ rec' = [rec EXCEPT !.pc = "done"]
     ELSE IF build = "W3PK.tsx" /\ idb.api = "none"
     THEN /\ Callback(FALSE, NoUser)
          /\ rec' = [rec EXCEPT !.pc = "done", !.probes = @ + 1]
     ELSE /\ UNCHANGED <<isAuthenticated, user>>
          /\ rec' = [rec EXCEPT !.pc = "probe", !.probes = @ + 1]
  /\ logoutsInRow' = 0
  /\ UNCHANGED <<build, verification, isLoading, isMounted, sdkSession, sdkUser, idb, calls,
                 sdkLogouts, idbClears, abandoned, missing, authState, header, backupPage, social>>

\* After await Promise.race([checkPromise, timeoutPromise]) (part_004) or
\* await checkIndexedDBForPersistentSession() (W3PK.tsx).
AfterProbe(hasPersistentSession, timedOut) ==
  /\ IF hasPersistentSession
     THEN /\ rec' = [rec EXCEPT !.pc = "login", !.logins = @ + 1]
          /\ UNCHANGED <<isAuthenticated, user>>
     ELSE /\ rec' = [rec EXCEPT !.pc = "done", !.timedOut = timedOut]
          /\ Callback(FALSE, NoUser)
  /\ logoutsInRow' = 0
  /\ UNCHANGED <<build, verification, isLoading, isMounted, sdkSession, sdkUser, idb, calls,
                 sdkLogouts, idbClears, abandoned, missing, authState, header, backupPage, social>>

\* checkIndexedDBForPersistentSession resolves: count > 0, or false when the
\* database cannot be opened, has no store, or the count fails.
ProbeResolves ==
  /\ rec.pc = "probe"
  /\ \E fails \in BOOLEAN : AfterProbe(HasPersistentSession(idb) /\ ~fails, FALSE)

\* part_004: setTimeout(() => resolve(false), 3000) wins the race.
ProbeTimeout_never == FALSE /\ UNCHANGED vars

ProbeTimeout ==
  /\ rec.pc = "probe"
  /\ build = "part_004"
  /\ AfterProbe(FALSE, TRUE)

\* The silent restore w3pk.login() settles.
RestoreSettles ==
  /\ rec.pc = "login"
  /\ \E r \in LoginResults :
       /\ IF r.ok
          THEN SdkAuthSettled(r)
          ELSE /\ Callback(FALSE, NoUser)
               /\ UNCHANGED <<sdkSession, sdkUser, idb>>
       /\ rec' = [rec EXCEPT !.pc = "done", !.restoreFailed = ~r.ok]
  /\ logoutsInRow' = 0
  /\ UNCHANGED <<build, verification, isLoading, isMounted, calls, sdkLogouts, idbClears, abandoned, missing, authState, header, backupPage, social>>

(***************************************************************************)
(* register, login                                                         *)
(***************************************************************************)
register(c) ==
  /\ Free(c)
  /\ ~abandoned
  /\ calls' = [calls EXCEPT ![c] = [Begin(c, "register") EXCEPT !.pc = "register", !.nOp = 1]]
  /\ isLoading' = TRUE
  /\ SessionUnchanged
  /\ CallStep

\* w3pk.register settles before the timer: success toast, or the error
\* toast (for every error) and rethrow.
registerSettles(c) ==
  /\ calls[c].pc = "register"
  /\ \E r \in RegisterResults :
       /\ SdkAuthSettled(r)
       /\ calls' = [calls EXCEPT ![c] =
            IF r.ok THEN Finish(@, "value", NoErr, {"Done!"})
            ELSE Finish(OpFailed(@, r.err), "threw", r.err, {"Registration Failed"})]
  /\ isLoading' = FALSE
  /\ CallStep

\* The 45 s timer fires first: the SDK registration stays pending.
registerTimeout_keepsLoading(c) ==
  /\ calls[c].pc = "register"
  /\ calls' = [calls EXCEPT ![c] = Finish(@, "threw", eTimeout, {"Registration Failed"})]
  /\ isLoading' = TRUE
  /\ abandoned' = TRUE
  /\ SessionUnchanged
  /\ logoutsInRow' = 0
  /\ UNCHANGED <<build, verification, isMounted, rec, sdkLogouts, idbClears, missing, authState, header, backupPage, social>>

\* (a register that cancelled the SDK registration it gave up on)
registerTimeout_cancels(c) ==
  /\ calls[c].pc = "register"
  /\ calls' = [calls EXCEPT ![c] = Finish(@, "threw", eTimeout, {"Registration Failed"})]
  /\ isLoading' = FALSE
  /\ abandoned' = FALSE
  /\ SessionUnchanged
  /\ logoutsInRow' = 0
  /\ UNCHANGED <<build, verification, isMounted, rec, sdkLogouts, idbClears, missing, authState, header, backupPage, social>>

registerTimeout(c) ==
  /\ calls[c].pc = "register"
  /\ calls' = [calls EXCEPT ![c] = Finish(@, "threw", eTimeout, {"Registration Failed"})]
  /\ isLoading' = FALSE
  /\ abandoned' = TRUE
  /\ SessionUnchanged
  /\ logoutsInRow' = 0
  /\ UNCHANGED <<build, verification, isMounted, rec, sdkLogouts, idbClears, missing, authState, header, backupPage, social>>

\* The abandoned SDK registration settles later.
AbandonedSettles ==
  /\ abandoned
  /\ \E r \in RegisterResults : SdkAuthSettled(r)
  /\ abandoned' = FALSE
  /\ logoutsInRow' = 0
  /\ UNCHANGED <<build, verification, isLoading, isMounted, calls, rec, sdkLogouts, idbClears, missing, authState, header, backupPage, social>>

login(c) ==
  /\ Free(c)
  /\ calls' = [calls EXCEPT ![c] = [Begin(c, "login") EXCEPT !.pc = "login", !.nLogin = 1]]
  /\ isLoading' = TRUE
  /\ SessionUnchanged
  /\ CallStep

\* The toast of a failed login.
LoginErrorToast(e) ==
  IF ~isUserCancelledError(e) /\ ~isPasskeyNotAvailable(e) THEN {"Authentication Failed"} ELSE {}

loginSettles(c) ==
  /\ calls[c].pc = "login"
  /\ \E r \in LoginResults :
       /\ SdkAuthSettled(r)
       /\ calls' = [calls EXCEPT ![c] =
            IF r.ok
            THEN Finish(@, "value", NoErr, {IF r.user # NoUser THEN "You're in! (success)" ELSE "You're in! (warning)"})
            ELSE Finish(Failed(@, r.err), "threw", r.err, LoginErrorToast(r.err))]
  /\ isLoading' = FALSE
  /\ CallStep

(***************************************************************************)
(* logout                                                                  *)
(***************************************************************************)
\* w3pk.logout(), not awaited: the SDK drops the in-memory session at once;
\* clearing its persistent sessions and the onAuthStateChanged(false)
\* callback come when its promise settles (SdkLogoutSettles).
SdkLogoutCalled ==
  /\ sdkSession' = FALSE
  /\ sdkUser' = NoUser
  /\ sdkLogouts' = sdkLogouts + 1

CountLogout == logoutsInRow' = IF logoutsInRow < 2 THEN logoutsInRow + 1 ELSE 2

\* part_004: the cleanup only registers request.onsuccess; logout returns
\* without waiting for it.
logout(c) ==
  /\ build = "part_004"
  /\ Free(c)
  /\ sdkLogouts < MaxPending
  /\ idbClears < MaxPending
  /\ SdkLogoutCalled
  /\ idbClears' = IF idb.api # "none" THEN idbClears + 1 ELSE idbClears
  /\ calls' = [calls EXCEPT ![c] = Finish(Begin(c, "logout"), "value", NoErr, {})]
  /\ CountLogout
  /\ UNCHANGED <<build, verification, isAuthenticated, user, isLoading, isMounted, idb, rec, abandoned, missing, authState, header, backupPage, social>>

\* part_004: request.onsuccess of the cleanup.
IdbClearFires ==
  /\ idbClears > 0
  /\ idbClears' = idbClears - 1
  /\ idb' = Cleared(idb)
  /\ UNCHANGED <<build, verification, isAuthenticated, user, isLoading, isMounted, sdkSession, sdkUser, calls,
                 rec, sdkLogouts, abandoned, logoutsInRow, missing, authState, header, backupPage, social>>

\* W3PK.tsx: clearPersistentSessionsFromIndexedDB() returns the promise from
\* inside its try block: when indexedDB.open throws in the executor the
\* promise is rejected, the catch is not entered and the await in logout
\* rethrows.
logoutAwaited(c) ==
  /\ build = "W3PK.tsx"
  /\ Free(c)
  /\ sdkLogouts < MaxPending
  /\ SdkLogoutCalled
  /\ IF idb.api = "none"
     THEN /\ calls' = [calls EXCEPT ![c] = Finish(Begin(c, "logout"), "threw", eIdb, {})]
          /\ CountLogout
     ELSE /\ calls' = [calls EXCEPT ![c] = [Begin(c, "logout") EXCEPT !.pc = "clear"]]
          /\ UNCHANGED logoutsInRow
  /\ UNCHANGED <<build, verification, isAuthenticated, user, isLoading, isMounted, idb, idbClears, rec, abandoned, missing, authState, header, backupPage, social>>

\* W3PK.tsx: the cleanup promise resolves (store cleared, or open / clear
\* failed, or no store), then the 'Logged Out' toast.
logoutCleared(c) ==
  /\ calls[c].pc = "clear"
  /\ \E fails \in BOOLEAN : idb' = IF fails THEN idb ELSE Cleared(idb)
  /\ calls' = [calls EXCEPT ![c] = Finish(@, "value", NoErr, {"Logged Out"})]
  /\ CountLogout
  /\ UNCHANGED <<build, verification, isAuthenticated, user, isLoading, isMounted, sdkSession, sdkUser,
                 idbClears, rec, sdkLogouts, abandoned, missing, authState, header, backupPage, social>>

\* The promise of w3pk.logout() settles: persistent sessions cleared (or not,
\* when that fails) and onAuthStateChanged(false).
SdkLogoutSettles ==
  /\ sdkLogouts > 0
  /\ sdkLogouts' = sdkLogouts - 1
  /\ \E fails \in BOOLEAN : idb' = IF fails THEN idb ELSE Cleared(idb)
  /\ Callback(FALSE, NoUser)
  /\ UNCHANGED <<build, verification, isLoading, isMounted, sdkSession, sdkUser, calls, rec, idbClears,
                 abandoned, logoutsInRow, missing, authState, header, backupPage, social>>


(***************************************************************************)
(* The authenticated operations                                            *)
(***************************************************************************)
\* ensureAuthentication up to its await: nothing to wait for when the SDK
\* session is active, else w3pk.login() is pending.
ensureAuthentication_skip(call) == [call EXCEPT !.pc = "ensured"]

\* (a provider that joined a login() already in flight instead of calling
\* w3pk.login() again)
ensureAuthentication_joined(call) ==
  IF sdkSession \/ \E d \in DOMAIN calls : calls[d].pc \in {"login", "ensure", "relogin"}
  THEN [call EXCEPT !.pc = "ensured", !.nCheck = @ + 1]
  ELSE [call EXCEPT !.pc = "ensure", !.nCheck = @ + 1, !.nLogin = @ + 1]

ensureAuthentication(call) ==
  IF sdkSession THEN [call EXCEPT !.pc = "ensured", !.nCheck = @ + 1]
  ELSE [call EXCEPT !.pc = "ensure", !.nCheck = @ + 1, !.nLogin = @ + 1]

\* The underlying SDK operation is invoked; its promise is pending.  The
\* first invocation remembers how many login() calls came before it.
Invoke(call, pc) ==
  [call EXCEPT !.pc = pc, !.nOp = @ + 1,
               !.loginsAtOp = IF call.nOp = 0 THEN call.nLogin ELSE @]

\* The forced w3pk.login() of a retry is pending.
ForceLogin(call) == [call EXCEPT !.pc = "relogin", !.nLogin = @ + 1, !.nForced = @ + 1]

\* w3pk.extendSession() after a successful operation.
Extend_never(call) == call

Extend(call) == [call EXCEPT !.nExtend = @ + 1]

\* if (!isAuthenticated || !user)
NotSignedIn_never == FALSE

NotSignedIn == ~isAuthenticated \/ user = NoUser

\* The SDK method an operation needs and tests with typeof before use.
Method(op) ==
  CASE op = "getBackupStatus" -> "getBackupStatus"
    [] op = "createBackup" -> "createBackupFile"
    [] op = "restoreFromBackup" -> "restoreFromBackupFile"
    [] op = "registerWithBackupFile" -> "registerWithBackupFile"
    [] op = "getStealthKeys" -> "stealth.getKeys"
    [] op = "generateStealthAddressFor" -> "stealth.generateStealthAddress"

OptionalMethods ==
  {"getBackupStatus", "createBackupFile", "restoreFromBackupFile", "registerWithBackupFile",
   "stealth.getKeys", "stealth.generateStealthAddress"}

\* typeof w3pk.<method> !== 'function'
Unsupported(op) == Method(op) \in missing

eUnsupported(method) == Err("Error", "Error", <<"w3pk", "SDK", "does", "not", "support", method>>)
eStealthUnavailable ==
  Err("Error", "Error", <<"Stealth", "address", "functionality", "not", "available", "in",
                          "current", "w3pk", "version">>)
eNotAFunction == Err("Error", "TypeError", <<"w3pk.createBackupFile", "is", "not", "a", "function">>)

\* A call waits for an SDK login() (ensureAuthentication or forced).
AwaitsLogin(c) == calls[c].pc \in {"ensure", "relogin"}

NotCancelledToast(e, title) == IF ~isUserCancelledError(e) THEN {title} ELSE {}

---------------------------------------------------------------------------
\* signMessage: no retry; every failure ends in return null.
signMessage_throws(c) ==
  /\ Free(c)
  /\ LET call == Begin(c, "signMessage") IN
       calls' = [calls EXCEPT ![c] =
         IF user = NoUser THEN Finish(call, "threw", eNoUser, {"Not Authenticated"})
         ELSE LET e == ensureAuthentication(call) IN
              IF e.pc = "ensured" THEN Invoke(e, "op") ELSE e]
  /\ UNCHANGED isLoading
  /\ SessionUnchanged
  /\ CallStep

signMessage(c) ==
  /\ Free(c)
  /\ LET call == Begin(c, "signMessage") IN
       calls' = [calls EXCEPT ![c] =
         IF user = NoUser THEN Finish(call, "null", NoErr, {"Not Authenticated"})
         ELSE LET e == ensureAuthentication(call) IN
              IF e.pc = "ensured" THEN Invoke(e, "op") ELSE e]
  /\ UNCHANGED isLoading
  /\ SessionUnchanged
  /\ CallStep

signMessageEnsured(c) ==
  /\ calls[c].op = "signMessage" /\ calls[c].pc = "ensure"
  /\ \E r \in LoginResults :
       /\ SdkAuthSettled(r)
       /\ calls' = [calls EXCEPT ![c] =
            IF r.ok THEN Invoke(@, "op")
            ELSE Finish(Failed(@, r.err), "null", r.err, NotCancelledToast(r.err, "Signing Failed"))]
  /\ UNCHANGED isLoading
  /\ CallStep

signMessageSettles(c) ==
  /\ calls[c].op = "signMessage" /\ calls[c].pc = "op"
  /\ \E r \in OpResults :
       calls' = [calls EXCEPT ![c] =
         IF r.ok THEN Finish(Extend(@), "value", NoErr, {})
         ELSE Finish(OpFailed(@, r.err), "null", r.err, NotCancelledToast(r.err, "Signing Failed"))]
  /\ UNCHANGED isLoading
  /\ SessionUnchanged
  /\ CallStep

---------------------------------------------------------------------------
\* deriveWallet and getAddress (getAddress: part_004 only).
DeriveOps == {"deriveWallet", "getAddress"}

DeriveTitle(op) == IF op = "deriveWallet" THEN "Derivation Failed" ELSE "Failed to Get Address"

\* The catch block of the first attempt.
DeriveCatch(call, e) ==
  IF DeriveNeedsLogin(call.op, e) THEN ForceLogin(call)
  ELSE Finish(call, "threw", e, NotCancelledToast(e, DeriveTitle(call.op)))

\* The catch block of the retry.
RetryCatch_again(call, e) == ForceLogin(call)

RetryCatch(call, e) ==
  Finish(call, "threw", e, NotCancelledToast(e, "Authentication Required"))

DeriveStart(c, op) ==
  /\ Free(c)
  /\ LET call == Begin(c, op) IN
       calls' = [calls EXCEPT ![c] =
         IF user = NoUser THEN Finish(call, "threw", eNoUser, {})
         ELSE LET e == ensureAuthentication(call) IN
              IF e.pc = "ensured" THEN Invoke(e, "op") ELSE e]
  /\ UNCHANGED isLoading
  /\ SessionUnchanged
  /\ CallStep

deriveWallet(c) == build \in Builds /\ DeriveStart(c, "deriveWallet")

getAddress(c) == build = "part_004" /\ DeriveStart(c, "getAddress")

deriveEnsured(c) ==
  /\ calls[c].op \in DeriveOps /\ calls[c].pc = "ensure"
  /\ \E r \in LoginResults :
       /\ SdkAuthSettled(r)
       /\ calls' = [calls EXCEPT ![c] =
            IF r.ok THEN Invoke(@, "op") ELSE DeriveCatch(Failed(@, r.err), r.err)]
  /\ UNCHANGED isLoading
  /\ CallStep

deriveSettles(c) ==
  /\ calls[c].op \in DeriveOps /\ calls[c].pc = "op"
  /\ \E r \in OpResults :
       calls' = [calls EXCEPT ![c] =
         IF r.ok THEN Finish(Extend(@), "value", NoErr, {})
         ELSE DeriveCatch(OpFailed(@, r.err), r.err)]
  /\ UNCHANGED isLoading
  /\ SessionUnchanged
  /\ CallStep

deriveRelogged(c) ==
  /\ calls[c].op \in DeriveOps /\ calls[c].pc = "relogin"
  /\ \E r \in LoginResults :
       /\ SdkAuthSettled(r)
       /\ calls' = [calls EXCEPT ![c] =
            IF r.ok THEN Invoke(@, "retry") ELSE RetryCatch(Failed(@, r.err), r.err)]
  /\ UNCHANGED isLoading
  /\ CallStep

deriveRetrySettles(c) ==
  /\ calls[c].op \in DeriveOps /\ calls[c].pc = "retry"
  /\ \E r \in OpResults :
       calls' = [calls EXCEPT ![c] =
         IF r.ok THEN Finish(Extend(@), "value", NoErr, {})
         ELSE RetryCatch(OpFailed(@, r.err), r.err)]
  /\ UNCHANGED isLoading
  /\ SessionUnchanged
  /\ CallStep

---------------------------------------------------------------------------
\* getBackupStatus and createBackup: no ensureAuthentication, no
\* extendSession; one outer catch for every failure.
BackupOps == {"getBackupStatus", "createBackup"}

BackupOuterCatch_swallow(call, e) == Finish(call, "value", NoErr, {})

BackupOuterCatch(call, e) ==
  Finish(call, "threw", e, NotCancelledToast(e, "Authentication Required"))

BackupStart(c, op) ==
  /\ Free(c)
  /\ LET call == Begin(c, op) IN
       IF NotSignedIn
       THEN /\ calls' = [calls EXCEPT ![c] = Finish(call, "threw", eUserNotAuth, {})]
            /\ UNCHANGED isLoading
       ELSE IF Unsupported(op)
       THEN /\ calls' = [calls EXCEPT ![c] = Finish(call, "threw", eUnsupported(Method(op)), {})]
            /\ UNCHANGED isLoading
       ELSE /\ calls' = [calls EXCEPT ![c] = Invoke(call, "op")]
            /\ isLoading' = TRUE
  /\ SessionUnchanged
  /\ CallStep

getBackupStatus(c) == build \in Builds /\ BackupStart(c, "getBackupStatus")

createBackup(c) == build \in Builds /\ BackupStart(c, "createBackup")

backupSettles(c) ==
  /\ calls[c].op \in BackupOps /\ calls[c].pc = "op"
  /\ \E r \in OpResults :
       calls' = [calls EXCEPT ![c] =
         IF r.ok THEN Finish(@, "value", NoErr, {})
         ELSE IF BackupNeedsLogin(r.err) THEN ForceLogin(OpFailed(@, r.err))
         ELSE BackupOuterCatch(OpFailed(@, r.err), r.err)]
  /\ isLoading' = IF calls'[c].pc = "done" THEN FALSE ELSE isLoading
  /\ SessionUnchanged
  /\ CallStep

backupRelogged(c) ==
  /\ calls[c].op \in BackupOps /\ calls[c].pc = "relogin"
  /\ \E r \in LoginResults :
       /\ SdkAuthSettled(r)
       /\ calls' = [calls EXCEPT ![c] =
            IF r.ok THEN Invoke(@, "retry") ELSE BackupOuterCatch(Failed(@, r.err), r.err)]
  /\ isLoading' = IF calls'[c].pc = "done" THEN FALSE ELSE isLoading
  /\ CallStep

backupRetrySettles(c) ==
  /\ calls[c].op \in BackupOps /\ calls[c].pc = "retry"
  /\ \E r \in OpResults :
       calls' = [calls EXCEPT ![c] =
         IF r.ok THEN Finish(@, "value", NoErr, {})
         ELSE BackupOuterCatch(OpFailed(@, r.err), r.err)]
  /\ isLoading' = FALSE
  /\ SessionUnchanged
  /\ CallStep


---------------------------------------------------------------------------
\* getStealthKeys and generateStealthAddressFor (part_004 only).
StealthOps == {"getStealthKeys", "generateStealthAddressFor"}

StealthTitle(op) ==
  IF op = "getStealthKeys" THEN "Failed to Get Stealth Keys" ELSE "Failed to Generate Stealth Address"

StealthCatch(call, e) == Finish(call, "threw", e, NotCancelledToast(e, StealthTitle(call.op)))

\* After ensureAuthentication: the stealth module is tested, then invoked.
StealthInvoke(call) ==
  IF Unsupported(call.op) THEN StealthCatch(call, eStealthUnavailable)
  ELSE Invoke(call, "op")

StealthStart(c, op) ==
  /\ Free(c)
  /\ LET call == Begin(c, op) IN
       calls' = [calls EXCEPT ![c] =
         IF NotSignedIn THEN Finish(call, "threw", eUserNotAuth, {})
         ELSE LET e == ensureAuthentication(call) IN
              IF e.pc = "ensured" THEN StealthInvoke(e) ELSE e]
  /\ UNCHANGED isLoading
  /\ SessionUnchanged
  /\ CallStep

getStealthKeys(c) == build = "part_004" /\ StealthStart(c, "getStealthKeys")

generateStealthAddressFor(c) == build = "part_004" /\ StealthStart(c, "generateStealthAddressFor")

stealthEnsured(c) ==
  /\ calls[c].op \in StealthOps /\ calls[c].pc = "ensure"
  /\ \E r \in LoginResults :
       /\ SdkAuthSettled(r)
       /\ calls' = [calls EXCEPT ![c] =
            IF r.ok THEN StealthInvoke(@) ELSE StealthCatch(Failed(@, r.err), r.err)]
  /\ UNCHANGED isLoading
  /\ CallStep

stealthSettles(c) ==
  /\ calls[c].op \in StealthOps /\ calls[c].pc = "op"
  /\ \E r \in OpResults :
       calls' = [calls EXCEPT ![c] =
         IF r.ok THEN Finish(Extend(@), "value", NoErr, {})
         ELSE StealthCatch(OpFailed(@, r.err), r.err)]
  /\ UNCHANGED isLoading
  /\ SessionUnchanged
  /\ CallStep

---------------------------------------------------------------------------
\* restoreFromBackup and registerWithBackupFile (the latter: part_004 only):
\* a toast for every outcome.
\* The typeof test, then the SDK call inside try { setIsLoading(true) ... }.
UploadStart(c, op) ==
  IF Unsupported(op)
  THEN /\ calls' = [calls EXCEPT ![c] = Finish(Begin(c, op), "threw", eUnsupported(Method(op)), {})]
       /\ UNCHANGED isLoading
  ELSE /\ calls' = [calls EXCEPT ![c] = Invoke(Begin(c, op), "op")]
       /\ isLoading' = TRUE

restoreFromBackup(c) ==
  /\ Free(c)
  /\ UploadStart(c, "restoreFromBackup")
  /\ SessionUnchanged
  /\ CallStep

restoreSettles(c) ==
  /\ calls[c].op = "restoreFromBackup" /\ calls[c].pc = "op"
  /\ \E r \in OpResults :
       calls' = [calls EXCEPT ![c] =
         IF r.ok THEN Finish(@, "value", NoErr, {"Backup Restored Successfully!"})
         ELSE Finish(OpFailed(@, r.err), "threw", r.err, {"Restore Failed"})]
  /\ isLoading' = FALSE
  /\ SessionUnchanged
  /\ CallStep

registerWithBackupFile(c) ==
  /\ build = "part_004"
  /\ Free(c)
  /\ UploadStart(c, "registerWithBackupFile")
  /\ SessionUnchanged
  /\ CallStep

registerWithBackupSettles(c) ==
  /\ calls[c].op = "registerWithBackupFile" /\ calls[c].pc = "op"
  /\ \E r \in RegisterResults :
       /\ SdkAuthSettled(r)
       /\ calls' = [calls EXCEPT ![c] =
            IF r.ok THEN Finish(@, "value", NoErr, {"Wallet Restored & Registered!"})
            ELSE Finish(OpFailed(@, r.err), "threw", r.err, {"Registration Failed"})]
  /\ isLoading' = FALSE
  /\ CallStep

---------------------------------------------------------------------------
\* setupSocialRecovery of part_004: password || window.prompt(...), the
\* password-encrypted backup, then the SDK's SocialRecoveryManager.
Passwords == {"", "pw"}

SetupCatch(call, e) == Finish(call, "threw", e, {"Setup Failed"})

\* From the password to the pending createBackupFile('password', pw);
\* typed is what window.prompt returns ("" for cancel or empty).
PromptAndBackup(call, password, typed) ==
  LET backupPassword == IF password # "" THEN password ELSE typed IN
  IF backupPassword = "" THEN SetupCatch(call, ePassword)
  ELSE IF "createBackupFile" \in missing THEN SetupCatch(call, eNotAFunction)
  ELSE Invoke([call EXCEPT !.pwd = backupPassword], "backup")

setupSocialRecovery(c) ==
  /\ build = "part_004"
  /\ Free(c)
  /\ LET call == Begin(c, "setupSocialRecovery") IN
       IF NotSignedIn
       THEN /\ calls' = [calls EXCEPT ![c] = Finish(call, "threw", eUserNotAuth, {})]
            /\ UNCHANGED isLoading
       ELSE /\ \E password \in Passwords, typed \in Passwords :
                 calls' = [calls EXCEPT ![c] =
                   LET e == ensureAuthentication([call EXCEPT !.pwd = password]) IN
                   IF e.pc = "ensured" THEN PromptAndBackup(e, password, typed) ELSE e]
            /\ isLoading' = IF calls'[c].pc = "done" THEN FALSE ELSE TRUE
  /\ SessionUnchanged
  /\ CallStep

setupEnsured(c) ==
  /\ calls[c].op = "setupSocialRecovery" /\ calls[c].pc = "ensure"
  /\ \E r \in LoginResults, typed \in Passwords :
       /\ SdkAuthSettled(r)
       /\ calls' = [calls EXCEPT ![c] =
            IF r.ok THEN PromptAndBackup(@, @.pwd, typed)
            ELSE SetupCatch(Failed(@, r.err), r.err)]
  /\ isLoading' = IF calls'[c].pc = "done" THEN FALSE ELSE isLoading
  /\ CallStep

\* createBackupFile settles; on success the backup JSON goes to
\* socialRecoveryManager.setupSocialRecovery.
setupBackupSettles(c) ==
  /\ calls[c].op = "setupSocialRecovery" /\ calls[c].pc = "backup"
  /\ \E r \in OpResults :
       calls' = [calls EXCEPT ![c] =
         IF r.ok THEN [@ EXCEPT !.pc = "split"]
         ELSE SetupCatch(OpFailed(@, r.err), r.err)]
  /\ isLoading' = IF calls'[c].pc = "done" THEN FALSE ELSE isLoading
  /\ SessionUnchanged
  /\ CallStep

setupSplitSettles(c) ==
  /\ calls[c].op = "setupSocialRecovery" /\ calls[c].pc = "split"
  /\ \E r \in OpResults :
       calls' = [calls EXCEPT ![c] =
         IF r.ok THEN Finish(@, "value", NoErr, {"Social Recovery Configured!"})
         ELSE SetupCatch(Failed(@, r.err), r.err)]
  /\ isLoading' = FALSE
  /\ SessionUnchanged
  /\ CallStep

(***************************************************************************)
(* The session specification                                               *)
(***************************************************************************)
Next ==
  \/ Mount
  \/ checkExistingAuth
  \/ ProbeResolves
  \/ ProbeTimeout
  \/ RestoreSettles
  \/ AbandonedSettles
  \/ IdbClearFires
  \/ SdkLogoutSettles
  \/ \E c \in Callers :
       \/ register(c) \/ registerSettles(c) \/ registerTimeout(c)
       \/ login(c) \/ loginSettles(c)
       \/ logout(c) \/ logoutAwaited(c) \/ logoutCleared(c)
       \/ signMessage(c) \/ signMessageEnsured(c) \/ signMessageSettles(c)
       \/ deriveWallet(c) \/ getAddress(c)
       \/ deriveEnsured(c) \/ deriveSettles(c) \/ deriveRelogged(c) \/ deriveRetrySettles(c)
       \/ getBackupStatus(c) \/ createBackup(c)
       \/ backupSettles(c) \/ backupRelogged(c) \/ backupRetrySettles(c)
       \/ getStealthKeys(c) \/ generateStealthAddressFor(c)
       \/ stealthEnsured(c) \/ stealthSettles(c)
       \/ restoreFromBackup(c) \/ restoreSettles(c)
       \/ registerWithBackupFile(c) \/ registerWithBackupSettles(c)
       \/ setupSocialRecovery(c) \/ setupEnsured(c) \/ setupBackupSettles(c) \/ setupSplitSettles(c)

Spec == Init /\ [][Next]_vars

(***************************************************************************)
(* The session with an SDK build that lacks the optional methods           *)
(***************************************************************************)
InitUnsupported ==
  /\ build \in Builds
  /\ verification = NoVerification
  /\ isAuthenticated = FALSE
  /\ user = NoUser
  /\ isLoading = FALSE
  /\ isMounted = FALSE
  /\ sdkSession = FALSE
  /\ sdkUser = NoUser
  /\ idb \in IdbStates
  /\ calls = [c \in Callers |-> Idle]
  /\ rec = [pc |-> "unmounted", probes |-> 0, logins |-> 0, timedOut |-> FALSE, restoreFailed |-> FALSE]
  /\ sdkLogouts = 0
  /\ idbClears = 0
  /\ abandoned = FALSE
  /\ logoutsInRow = 0
  /\ missing = OptionalMethods
  /\ authState = NoAuthState
  /\ header = NoForm
  /\ backupPage = NoRestore
  /\ wallet = NoWallet
  /\ config = NoConfig
  /\ sr = NoCall

\* Session recovery, login, logout and the operations that need one of the
\* optional methods.
NextUnsupported ==
  \/ Mount
  \/ checkExistingAuth
  \/ ProbeResolves
  \/ ProbeTimeout
  \/ RestoreSettles
  \/ IdbClearFires
  \/ SdkLogoutSettles
  \/ \E c \in Callers :
       \/ login(c) \/ loginSettles(c)
       \/ logout(c) \/ logoutAwaited(c) \/ logoutCleared(c)
       \/ getBackupStatus(c) \/ createBackup(c)
       \/ restoreFromBackup(c) \/ registerWithBackupFile(c)
       \/ getStealthKeys(c) \/ generateStealthAddressFor(c) \/ stealthEnsured(c)

SpecUnsupported == InitUnsupported /\ [][NextUnsupported]_vars

\* The scheduling the recovery relies on: effects run after the render, the
\* 3 s timer fires, and the SDK settles the silent login().  Nothing says
\* that the probe of IndexedDB ever answers.
FairRecovery ==
  /\ WF_vars(Mount)
  /\ WF_vars(checkExistingAuth)
  /\ WF_vars(ProbeTimeout)
  /\ WF_vars(RestoreSettles)

SpecLive == Spec /\ FairRecovery

TypeOK ==
  /\ build \in Builds
  /\ isAuthenticated \in BOOLEAN /\ isLoading \in BOOLEAN /\ isMounted \in BOOLEAN
  /\ user \in Users \cup {NoUser} /\ sdkUser \in Users \cup {NoUser}
  /\ sdkSession \in BOOLEAN
  /\ idb \in IdbStates
  /\ sdkLogouts \in 0..MaxPending /\ idbClears \in 0..MaxPending
  /\ logoutsInRow \in 0..2


(***************************************************************************)
(* Inline social recovery of W3PK.tsx                                      *)
(***************************************************************************)
\* Bounds of the social recovery specification.
MaxGuardians == 2
MaxShares == 3

\* Texts that Wallet.fromPhrase accepts; every other text makes it throw.
Phrases == {"m1", "m2"}
Garbage == "garbage"

\* Wallet.fromPhrase(mnemonic).address: ethers returns the checksum form.
AddressOf(mnemonic) == Address(IF mnemonic = "m1" THEN "a1" ELSE "a2", TRUE)

eSocialNotAuth == Err("Error", "Error", <<"User", "not", "authenticated.", "Cannot", "setup", "social", "recovery.">>)
eShares == Err("Error", "Error", <<"Threshold", "number", "of", "shares", "must", "be", "between", "2", "and", "the", "number", "of", "shares">>)
eNotConfigured == Err("Error", "Error", <<"Social", "recovery", "not", "configured">>)
eNeed(threshold, got) ==
  Err("Error", "Error", <<"Need", "at", "least", ToString(threshold), "shares,", "got", ToString(got)>>)
eJson == Err("Error", "SyntaxError", <<"Unexpected", "token">>)
eInvalidMnemonic == Err("Error", "Error", <<"invalid", "mnemonic">>)
eMismatch == Err("Error", "Error", <<"Recovered", "address", "does", "not", "match", "-", "invalid", "shares">>)

\* A share of secrets.js: the split it comes from and its id (the x of the
\* point).  "wallet" is the split of the user's mnemonic made by
\* setupSocialRecovery, "other" is any other split.
Share(of, id) == [of |-> of, id |-> id]

\* An element of shareData: a JSON text with a share field, or a text that
\* JSON.parse rejects.
Package(share) == [json |-> TRUE, share |-> share]
Malformed == [json |-> FALSE, share |-> Share("other", 0)]

\* What a caller may pass: the shares of the guardians, a share of another
\* split that carries the id of the first guardian's share, a malformed text.
ShareInputs ==
  {Package(Share("wallet", id)) : id \in 1..MaxGuardians}
    \cup {Package(Share("other", 1)), Malformed}

ShareSeqs == UNION {[1..k -> ShareInputs] : k \in 0..MaxShares}

\* secrets.share(mnemonicHex, shares, threshold): throws unless
\* 2 <= threshold <= shares, else one share per guardian.
splitSecret_unchecked(mnemonic, threshold, shares) ==
  [ok |-> TRUE, shares |-> [i \in 1..shares |-> Share("wallet", i)]]

splitSecret(mnemonic, threshold, shares) ==
  IF shares < 2 \/ threshold < 2 \/ threshold > shares
  THEN [ok |-> FALSE, shares |-> <<>>]
  ELSE [ok |-> TRUE, shares |-> [i \in 1..shares |-> Share("wallet", i)]]

\* secrets.combine keeps the first share of every id.
RECURSIVE FirstOfEachId(_)
FirstOfEachId(shareArray) ==
  IF shareArray = <<>> THEN <<>>
  ELSE LET front == FirstOfEachId(SubSeq(shareArray, 1, Len(shareArray) - 1))
           last == shareArray[Len(shareArray)]
       IN IF \E i \in 1..Len(front) : front[i].id = last.id THEN front
          ELSE Append(front, last)

\* A share that setupSocialRecovery handed to a guardian of cfg.
Genuine(share, cfg) == \E i \in 1..Len(cfg.guardians) : cfg.guardians[i] = share

\* secrets.combine(shareArray) and the hex to utf8 conversion, as the set of
\* texts it can yield: the split mnemonic when the shares used are at least
\* threshold shares of its split and nothing else, and otherwise any other
\* text, a valid phrase or not.
combineSecret(shareArray, cfg, mnemonic) ==
  LET used == FirstOfEachId(shareArray) IN
  IF Len(used) >= cfg.threshold /\ \A i \in 1..Len(used) : Genuine(used[i], cfg)
  THEN {mnemonic} ELSE (Phrases \cup {Garbage}) \ {mnemonic}

\* shareData.length < config.threshold is the 'need more shares' failure.
EnoughShares_any(shareData, cfg) == TRUE

EnoughShares(shareData, cfg) == Len(shareData) >= cfg.threshold

\* wallet.address.toLowerCase() !== config.ethereumAddress.toLowerCase()
SameAddress_any(a, b) == TRUE

SameAddress(a, b) == toLowerCase(a) = toLowerCase(b)

SocialCall(op) == [NoCall EXCEPT !.op = op]

\* setupSocialRecovery of W3PK.tsx: the mnemonic is read back from a
\* passkey backup and split; the password parameter is not used.  r is the
\* outcome of the SDK calls (createBackupFile, restoreFromBackupFile).
setupSocialRecoveryInline ==
  /\ build = "W3PK.tsx"
  /\ \E guardians \in 0..MaxGuardians, threshold \in -1..(MaxGuardians + 1),
        password \in Passwords, r \in {Ok(user), Fail(eOther), Fail(eCancel)} :
       LET call == [SocialCall("setupSocialRecovery") EXCEPT !.threshold = threshold,
                                                             !.total = guardians]
           failed(e) == [call EXCEPT !.out = "threw", !.err = e, !.toasts = {"Setup Failed"}]
           split == splitSecret(wallet.mnemonic, threshold, guardians)
       IN IF NotSignedIn
          THEN /\ sr' = [call EXCEPT !.out = "threw", !.err = eSocialNotAuth]
               /\ UNCHANGED config
          ELSE IF ~r.ok
          THEN /\ sr' = failed(r.err)
               /\ UNCHANGED config
          ELSE IF ~split.ok
          THEN /\ sr' = failed(eShares)
               /\ UNCHANGED config
          ELSE /\ config' = [threshold |-> threshold, totalGuardians |-> guardians,
                             guardians |-> split.shares,
                             ethereumAddress |-> wallet.address]
               /\ sr' = [call EXCEPT !.out = "value", !.split = "mnemonic", !.pwd = "",
                                     !.toasts = {"Social Recovery Configured!"}]
  /\ UNCHANGED <<build, verification, isAuthenticated, user, isLoading, isMounted, sdkSession, sdkUser,
                 idb, calls, rec, sdkLogouts, idbClears, abandoned, logoutsInRow, missing, authState, header, backupPage, wallet>>

\* recoverFromGuardians of W3PK.tsx from the parsed shares on, as the record
\* of the finished call; mnemonic is what combineSecret returned.
recoverCombined(call, mnemonic) ==
  LET failed(e) == [call EXCEPT !.out = "threw", !.err = e, !.toasts = {"Recovery Failed"}]
  IN IF mnemonic \notin Phrases THEN failed(eInvalidMnemonic)
     ELSE IF ~SameAddress(AddressOf(mnemonic), config.ethereumAddress)
     THEN [failed(eMismatch) EXCEPT !.derived = AddressOf(mnemonic)]
     ELSE [call EXCEPT !.out = "value", !.mnemonic = mnemonic,
                       !.derived = AddressOf(mnemonic),
                       !.toasts = {"Wallet Recovered!"}]

\* recoverFromGuardians of W3PK.tsx, as the set of records the finished call
\* can leave.
recoverFromGuardians_unchecked(shareData) ==
  LET call == [SocialCall("recoverFromGuardians") EXCEPT !.input = shareData]
      failed(e) == [call EXCEPT !.out = "threw", !.err = e, !.toasts = {"Recovery Failed"}]
  IN IF ~EnoughShares(shareData, config)
     THEN {failed(eNeed(config.threshold, Len(shareData)))}
     ELSE IF \E i \in 1..Len(shareData) : ~shareData[i].json THEN {failed(eJson)}
     ELSE LET shares == [i \in 1..Len(shareData) |-> shareData[i].share]
          IN {recoverCombined(call, mnemonic) :
                mnemonic \in combineSecret(shares, config, wallet.mnemonic)}

recoverFromGuardians(shareData) ==
  LET call == [SocialCall("recoverFromGuardians") EXCEPT !.input = shareData]
      failed(e) == [call EXCEPT !.out = "threw", !.err = e, !.toasts = {"Recovery Failed"}]
  IN IF config = NoConfig THEN {failed(eNotConfigured)}
     ELSE IF ~EnoughShares(shareData, config)
     THEN {failed(eNeed(config.threshold, Len(shareData)))}
     ELSE IF \E i \in 1..Len(shareData) : ~shareData[i].json THEN {failed(eJson)}
     ELSE LET shares == [i \in 1..Len(shareData) |-> shareData[i].share]
          IN {recoverCombined(call, mnemonic) :
                mnemonic \in combineSecret(shares, config, wallet.mnemonic)}

recoverFromGuardiansInline ==
  /\ build = "W3PK.tsx"
  /\ \E shareData \in ShareSeqs : sr' \in recoverFromGuardians(shareData)
  /\ UNCHANGED <<build, verification, isAuthenticated, user, isLoading, isMounted, sdkSession, sdkUser,
                 idb, calls, rec, sdkLogouts, idbClears, abandoned, logoutsInRow, missing, authState, header, backupPage, wallet, config>>

\* A Guardian object as a caller passes it: its id and its shareEncrypted.
\* The guardians of a config carry the ids 1..totalGuardians, one each, as
\* setupSocialRecovery gives every guardian a fresh id; MaxGuardians + 1 is
\* an id no config holds.
Guardians ==
  {[id |-> id, shareEncrypted |-> share] :
     id \in 1..(MaxGuardians + 1),
     share \in {Share("wallet", i) : i \in 1..MaxGuardians} \cup {Share("other", 1)}}

eGuardianNotFound == Err("Error", "Error", <<"Guardian", "not", "found">>)

\* generateGuardianInvite of W3PK.tsx, as the record of the finished call;
\* shareCode is the object that JSON.stringify writes, and findIndex the
\* result of config.guardians.findIndex(g => g.id === guardian.id), -1 when
\* no guardian has the id.
generateGuardianInvite_anyId(guardian) ==
  LET call == [SocialCall("generateGuardianInvite") EXCEPT !.guardian = guardian]
      findIndex == IF guardian.id \in 1..Len(config.guardians) THEN guardian.id - 1 ELSE -1
      index == IF findIndex = -1 THEN 0 ELSE findIndex
  IN
  IF config = NoConfig
  THEN [call EXCEPT !.out = "threw", !.err = eNotConfigured, !.toasts = {"Generation Failed"}]
  ELSE [call EXCEPT !.out = "value", !.toasts = {"Guardian Invitation Generated"},
                    !.shareCode = [guardianId |-> guardian.id,
                                   guardianIndex |-> index + 1,
                                   totalGuardians |-> config.totalGuardians,
                                   threshold |-> config.threshold,
                                   share |-> guardian.shareEncrypted,
                                   ethereumAddress |-> config.ethereumAddress]]
generateGuardianInvite(guardian) ==
  LET call == [SocialCall("generateGuardianInvite") EXCEPT !.guardian = guardian]
      findIndex == IF guardian.id \in 1..Len(config.guardians) THEN guardian.id - 1 ELSE -1
      index == findIndex
  IN
  IF config = NoConfig
  THEN [call EXCEPT !.out = "threw", !.err = eNotConfigured, !.toasts = {"Generation Failed"}]
  ELSE IF index = -1
  THEN [call EXCEPT !.out = "threw", !.err = eGuardianNotFound, !.toasts = {"Generation Failed"}]
  ELSE [call EXCEPT !.out = "value", !.toasts = {"Guardian Invitation Generated"},
                    !.shareCode = [guardianId |-> guardian.id,
                                   guardianIndex |-> index + 1,
                                   totalGuardians |-> config.totalGuardians,
                                   threshold |-> config.threshold,
                                   share |-> guardian.shareEncrypted,
                                   ethereumAddress |-> config.ethereumAddress]]

\* The call of generateGuardianInvite: isLoading is set and, in the finally
\* block, reset; nothing is stored.
generateGuardianInviteInline ==
  /\ build = "W3PK.tsx"
  /\ \E guardian \in Guardians : sr' = generateGuardianInvite(guardian)
  /\ isLoading' = FALSE
  /\ UNCHANGED <<build, verification, isAuthenticated, user, isMounted, sdkSession, sdkUser,
                 idb, calls, rec, sdkLogouts, idbClears, abandoned, logoutsInRow, missing,
                 authState, header, backupPage, wallet, config>>

\* clearSocialRecoveryConfig: localStorage.removeItem and a toast.
clearSocialRecoveryConfig ==
  /\ build = "W3PK.tsx"
  /\ config' = NoConfig
  /\ sr' = [SocialCall("clearSocialRecoveryConfig") EXCEPT
              !.out = "value", !.toasts = {"Social Recovery Config Cleared"}]
  /\ UNCHANGED <<build, verification, isAuthenticated, user, isLoading, isMounted, sdkSession, sdkUser,
                 idb, calls, rec, sdkLogouts, idbClears, abandoned, logoutsInRow, missing, authState, header, backupPage, wallet>>

\* The provider of W3PK.tsx after session recovery, logged out or
\* Authenticated with an active SDK session, and the user's wallet: a
\* mnemonic and its address as the SDK reports it, checksummed or lower case.
InitSocial ==
  /\ build = "W3PK.tsx"
  /\ verification = NoVerification
  /\ isAuthenticated \in BOOLEAN
  /\ user = IF isAuthenticated THEN "alice" ELSE NoUser
  /\ isLoading = FALSE
  /\ isMounted = TRUE
  /\ sdkSession = isAuthenticated
  /\ sdkUser = user
  /\ idb = Idb("store", {})
  /\ calls = [c \in Callers |-> Idle]
  /\ rec = [pc |-> "done", probes |-> 0, logins |-> 0, timedOut |-> FALSE, restoreFailed |-> FALSE]
  /\ sdkLogouts = 0
  /\ idbClears = 0
  /\ abandoned = FALSE
  /\ logoutsInRow = 0
  /\ missing = {}
  /\ authState = NoAuthState
  /\ header = NoForm
  /\ backupPage = NoRestore
  /\ wallet \in {[mnemonic |-> m, address |-> Address(AddressOf(m).hex, checksum)] :
                   m \in Phrases, checksum \in BOOLEAN}
  /\ config = NoConfig
  /\ sr = NoCall

NextSocial ==
  \/ setupSocialRecoveryInline
  \/ recoverFromGuardiansInline
  \/ generateGuardianInviteInline
  \/ clearSocialRecoveryConfig

SpecSocial == InitSocial /\ [][NextSocial]_vars


(***************************************************************************)
(* customize.js: the registration form of the header                       *)
(***************************************************************************)
MaxFill == 50

\* The character classes [a-zA-Z0-9] and [a-zA-Z0-9_-] over the characters
\* in use.
Alnum(ch) == ch \in {"a", "b", "c", "e", "i", "l", "Z", "1", "2"}
Word(ch) == Alnum(ch) \/ ch \in {"_", "-"}

\* String.prototype.trim: white space is removed from both ends only.
RECURSIVE trim(_)
trim(s) ==
  IF s # <<>> /\ Head(s) = " " THEN trim(Tail(s))
  ELSE IF s # <<>> /\ s[Len(s)] = " " THEN trim(SubSeq(s, 1, Len(s) - 1))
  ELSE s

\* /^[a-zA-Z0-9]([a-zA-Z0-9_-]*[a-zA-Z0-9])?$/.test(s): one character of the
\* first class, then either the end, or n characters of the starred class,
\* one of the last class and the end.
UsernamePattern(s) ==
  /\ s # <<>>
  /\ Alnum(s[1])
  /\ \/ Len(s) = 1
     \/ \E n \in 0..(Len(s) - 2) :
          /\ \A i \in 2..(n + 1) : Word(s[i])
          /\ Alnum(s[n + 2])
          /\ n + 2 = Len(s)

validateUsername_patternOnly(input) ==
  IF trim(input) = <<>> THEN TRUE ELSE UsernamePattern(trim(input))
validateUsername(input) ==
  IF trim(input) = <<>>
  THEN TRUE
  ELSE /\ UsernamePattern(trim(input))
       /\ Len(trim(input)) >= 3
       /\ Len(trim(input)) <= 50

\* What the user may have typed: every text of at most three characters,
\* the three names of the documentation, and texts of one character, a run
\* of one repeated character and at most one last character, bare or between
\* spaces.
Usernames ==
  LET Alphabet == {"a", "Z", "1", "_", "-", " ", "!"}
      Run(ch, n) == [i \in 1..n |-> ch]
  IN
  UNION {[1..n -> Alphabet] : n \in 0..3}
  \cup {<<"a", "l", "i", "c", "e">>, <<"a", "l", "i", "c", "e", "-", "2">>,
        <<"a", "1", "_", "b", "2">>}
  \cup {pad \o <<first>> \o Run(fill, n) \o last \o pad :
          pad \in {<<>>, <<" ">>}, first \in Alphabet, fill \in Alphabet,
          n \in 0..MaxFill, last \in {<<>>} \cup {<<ch>> : ch \in Alphabet}}

\* handleRegister up to its await: an empty name and an invalid name only
\* raise the invalid flag; a valid one is passed, trimmed, to register().
handleRegister ==
  /\ ~header.isRegistering
  /\ header' =
       IF trim(header.username) = <<>>
       THEN [header EXCEPT !.clicks = 1, !.input = header.username,
                           !.isUsernameInvalid = TRUE,
                           !.toasts = {"Username Required"}]
       ELSE IF ~validateUsername(header.username)
       THEN [header EXCEPT !.clicks = 1, !.input = header.username,
                           !.isUsernameInvalid = TRUE]
       ELSE [header EXCEPT !.clicks = 1, !.input = header.username,
                           !.isUsernameInvalid = FALSE, !.isRegistering = TRUE,
                           !.registered = <<trim(header.username)>>]
  /\ UNCHANGED <<provider, backupPage, social>>

\* handleRegister after its await: register() or the 60 s timer settled.
handleRegisterSettles ==
  /\ header.isRegistering
  /\ \E ok \in BOOLEAN :
       header' = IF ok
                 THEN [header EXCEPT !.isRegistering = FALSE, !.username = <<>>]
                 ELSE [header EXCEPT !.isRegistering = FALSE,
                                     !.toasts = {"Registration Failed"}]
  /\ UNCHANGED <<provider, backupPage, social>>

\* useEffect on username: a valid name clears the invalid flag.
usernameEffect ==
  /\ header.isUsernameInvalid
  /\ validateUsername(header.username)
  /\ header' = [header EXCEPT !.isUsernameInvalid = FALSE]
  /\ UNCHANGED <<provider, backupPage, social>>

\* handleModalClose: the form is reset.
handleModalClose ==
  /\ ~header.isRegistering
  /\ header.username # <<>> \/ header.isUsernameInvalid
  /\ header' = [header EXCEPT !.username = <<>>, !.isUsernameInvalid = FALSE]
  /\ UNCHANGED <<provider, backupPage, social>>

\* The provider before it is mounted, as in Init.
ProviderAtRest ==
  /\ build = "part_004"
  /\ isAuthenticated = FALSE
  /\ user = NoUser
  /\ isLoading = FALSE
  /\ isMounted = FALSE
  /\ sdkSession = FALSE
  /\ sdkUser = NoUser
  /\ idb = Idb("store", {})
  /\ calls = [c \in Callers |-> Idle]
  /\ rec = [pc |-> "unmounted", probes |-> 0, logins |-> 0, timedOut |-> FALSE, restoreFailed |-> FALSE]
  /\ sdkLogouts = 0
  /\ idbClears = 0
  /\ abandoned = FALSE
  /\ logoutsInRow = 0
  /\ missing = {}
  /\ authState = NoAuthState
  /\ wallet = NoWallet
  /\ config = NoConfig
  /\ sr = NoCall

InitForm ==
  /\ ProviderAtRest
  /\ verification = NoVerification
  /\ header \in {[NoForm EXCEPT !.username = name] : name \in Usernames}
  /\ backupPage = NoRestore

NextForm ==
  \/ handleRegister
  \/ handleRegisterSettles
  \/ usernameEffect
  \/ handleModalClose

SpecForm == InitForm /\ [][NextForm]_vars


(***************************************************************************)
(* route.ts: restoring a wallet from a selected backup file                *)
(***************************************************************************)
\* The files the user may have selected.
BackupFiles ==
  LET Property == {"absent", "falsy", "truthy"} IN
  {[NoFile EXCEPT !.kind = kind] : kind \in {"none", "empty", "text", "null", "scalar"}}
  \cup [kind : {"object"}, rpe : Property, version : Property, encrypted : Property,
        mnemonic : Property]

\* The value of backupObj after JSON.parse(selectedBackupFile) and the tests
\* on it: "thrown" when the text is not JSON or when a property of null is
\* read, else what the tests decide.
ParsedAs_noLegacyTest(file) ==
  IF file.kind \in {"text", "null"} THEN "thrown"
  ELSE IF file.rpe = "truthy" THEN "embedded"
  ELSE "plain"
ParsedAs(file) ==
  IF file.kind \in {"text", "null"} THEN "thrown"
  ELSE IF file.rpe = "truthy" THEN "embedded"
  ELSE IF file.version # "truthy" /\ (file.encrypted = "truthy" \/ file.mnemonic = "truthy")
  THEN "incompatible"
  ELSE "plain"

\* handleRestorePasswordSubmit up to its await: without a file a toast and
\* nothing else; an incompatible backup is refused and isRestoring is reset;
\* otherwise the file, or the 'recovery-phrase.txt.enc' entry of it, goes to
\* restoreFromBackup.
handleRestorePasswordSubmit ==
  /\ backupPage.pc = "idle"
  /\ backupPage.showRestorePasswordModal
  /\ LET file == backupPage.selectedBackupFile
         closed == [backupPage EXCEPT !.showRestorePasswordModal = FALSE,
                                      !.payload = file, !.restored = <<>>]
     IN backupPage' =
          IF file.kind \in {"none", "empty"}
          THEN [closed EXCEPT !.pc = "done", !.toasts = {"No backup file selected"}]
          ELSE IF ParsedAs(file) = "incompatible"
          THEN [closed EXCEPT !.pc = "done", !.isRestoring = FALSE,
                              !.toasts = {"Incompatible Backup Version"}]
          ELSE [closed EXCEPT !.pc = "restoreFromBackup", !.isRestoring = TRUE,
                              !.toasts = {},
                              !.restored = <<IF ParsedAs(file) = "embedded"
                                             THEN "recovery-phrase.txt.enc" ELSE "file">>]
  /\ UNCHANGED <<provider, header, social>>

\* handleRestorePasswordSubmit after its await: restoreFromBackup resolved or
\* rejected (it shows its own error toast); finally isRestoring is reset.
handleRestoreSettles ==
  /\ backupPage.pc = "restoreFromBackup"
  /\ \E ok \in BOOLEAN :
       backupPage' =
         IF ok
         THEN [backupPage EXCEPT !.pc = "done", !.isRestoring = FALSE,
                                 !.selectedBackupFile = NoFile,
                                 !.toasts = {"Wallet Restored!"}]
         ELSE [backupPage EXCEPT !.pc = "done", !.isRestoring = FALSE]
  /\ UNCHANGED <<provider, header, social>>

\* handleRestoreModalClose: the modal is closed and the file forgotten.
handleRestoreModalClose ==
  /\ backupPage.showRestorePasswordModal
  /\ backupPage' = [backupPage EXCEPT !.showRestorePasswordModal = FALSE,
                                      !.selectedBackupFile = NoFile]
  /\ UNCHANGED <<provider, header, social>>

\* handleRestoreBackup has read a file and opened the password modal.
InitRestore ==
  /\ ProviderAtRest
  /\ verification = NoVerification
  /\ header = NoForm
  /\ backupPage \in {[NoRestore EXCEPT !.selectedBackupFile = file,
                                        !.showRestorePasswordModal = TRUE] :
                        file \in BackupFiles}

NextRestore ==
  \/ handleRestorePasswordSubmit
  \/ handleRestoreSettles
  \/ handleRestoreModalClose

SpecRestore == InitRestore /\ [][NextRestore]_vars


(***************************************************************************)
(* W3PK.tsx, first provider: the UI state mirrored in localStorage         *)
(***************************************************************************)
\* What localStorage may hold under 'w3pk_auth_state' when the page loads.
AuthStates ==
  {NoAuthState, [NoAuthState EXCEPT !.kind = "malformed"]}
  \cup [kind : {"data"}, isAuthenticated : BOOLEAN, user : Users \cup {NoUser}]

\* handleAuthStateChanged of the first provider: the pair is set and
\* mirrored in localStorage, or cleared and the mirror removed.
CallbackMirror(isAuth, u) ==
  /\ Callback(isAuth, u)
  /\ authState' = IF isAuth /\ u # NoUser
                  THEN [kind |-> "data", isAuthenticated |-> TRUE, user |-> u]
                  ELSE NoAuthState

\* checkExistingAuth of the first provider up to its await: the in-memory
\* session, else the mirrored UI state, which is restored before the
\* restoring w3pk.login() is started, else logged out.
checkExistingAuthMirror ==
  /\ rec.pc = "mounted"
  /\ IF HasInMemorySession
     THEN /\ CallbackMirror(TRUE, sdkUser)
          /\ rec' = [rec EXCEPT !.pc = "done"]
     ELSE IF authState.kind = "data" /\ authState.isAuthenticated /\ authState.user # NoUser
     THEN /\ CallbackMirror(TRUE, authState.user)
          /\ rec' = [rec EXCEPT !.pc = "login", !.logins = @ + 1]
     ELSE /\ CallbackMirror(FALSE, NoUser)
          /\ rec' = [rec EXCEPT !.pc = "done"]
  /\ UNCHANGED <<build, verification, isLoading, isMounted, sdkSession, sdkUser, idb, calls, sdkLogouts,
                 idbClears, abandoned, logoutsInRow, missing, header, backupPage, social>>

\* The SDK of the first provider settles a login(): on success it holds the
\* session and reports through onAuthStateChanged.
SdkLoginMirror(r) ==
  IF r.ok
  THEN /\ sdkSession' = (r.user # NoUser)
       /\ sdkUser' = r.user
       /\ CallbackMirror(TRUE, r.user)
  ELSE UNCHANGED <<sdkSession, sdkUser, isAuthenticated, user, authState>>

\* The restoring w3pk.login() settles; its catch block only logs.
RestoreSettlesMirror ==
  /\ rec.pc = "login"
  /\ \E r \in LoginResults :
       /\ SdkLoginMirror(r)
       /\ rec' = [rec EXCEPT !.pc = "done", !.restoreFailed = ~r.ok]
  /\ UNCHANGED <<build, verification, isLoading, isMounted, idb, calls, sdkLogouts, idbClears, abandoned,
                 logoutsInRow, missing, header, backupPage, social>>

\* login of the first provider, and its settling.
loginMirror(c) ==
  /\ Free(c)
  /\ calls[c].op = "none"
  /\ calls' = [calls EXCEPT ![c] = [Begin(c, "login") EXCEPT !.pc = "login", !.nLogin = 1]]
  /\ isLoading' = TRUE
  /\ UNCHANGED <<build, verification, isAuthenticated, user, isMounted, sdkSession, sdkUser, idb, rec,
                 sdkLogouts, idbClears, abandoned, logoutsInRow, missing, authState, header,
                 backupPage, social>>

loginMirrorSettles(c) ==
  /\ calls[c].pc = "login"
  /\ \E r \in LoginResults :
       /\ SdkLoginMirror(r)
       /\ calls' = [calls EXCEPT ![c] =
            IF r.ok
            THEN Finish(@, "value", NoErr, {"You're in!"})
            ELSE Finish(Failed(@, r.err), "threw", r.err,
                        IF isUserCancelledError(r.err) THEN {} ELSE {"Authentication Failed"})]
  /\ isLoading' = FALSE
  /\ UNCHANGED <<build, verification, isMounted, idb, rec, sdkLogouts, idbClears, abandoned, logoutsInRow,
                 missing, header, backupPage, social>>

InitMirror ==
  /\ build = "W3PK.tsx"
  /\ verification = NoVerification
  /\ isAuthenticated = FALSE
  /\ user = NoUser
  /\ isLoading = FALSE
  /\ isMounted = FALSE
  /\ sdkSession \in BOOLEAN
  /\ sdkUser = IF sdkSession THEN "alice" ELSE NoUser
  /\ idb = Idb("store", {})
  /\ calls = [c \in Callers |-> Idle]
  /\ rec = [pc |-> "unmounted", probes |-> 0, logins |-> 0, timedOut |-> FALSE, restoreFailed |-> FALSE]
  /\ sdkLogouts = 0
  /\ idbClears = 0
  /\ abandoned = FALSE
  /\ logoutsInRow = 0
  /\ missing = {}
  /\ authState \in AuthStates
  /\ header = NoForm
  /\ backupPage = NoRestore
  /\ wallet = NoWallet
  /\ config = NoConfig
  /\ sr = NoCall

NextMirror ==
  \/ Mount
  \/ checkExistingAuthMirror
  \/ RestoreSettlesMirror
  \/ \E c \in Callers : loginMirror(c) \/ loginMirrorSettles(c)

SpecMirror == InitMirror /\ [][NextMirror]_vars


(***************************************************************************)
(* Two provider calls in flight at once                                    *)
(***************************************************************************)
\* Two components of the page calling the provider, each with at most one
\* call of its own in flight.
Pair == {"ui", "ui2"}

\* The provider of a signed-in user whose SDK session is active or has
\* lapsed (sessionDuration).
InitPair ==
  /\ build = "part_004"
  /\ verification = NoVerification
  /\ isAuthenticated = TRUE
  /\ user = "alice"
  /\ isLoading = FALSE
  /\ isMounted = TRUE
  /\ sdkSession \in BOOLEAN
  /\ sdkUser = IF sdkSession THEN "alice" ELSE NoUser
  /\ idb = Idb("store", {"alice"})
  /\ calls = [c \in Pair |-> Idle]
  /\ rec = [pc |-> "done", probes |-> 1, logins |-> 0, timedOut |-> FALSE, restoreFailed |-> FALSE]
  /\ sdkLogouts = 0
  /\ idbClears = 0
  /\ abandoned = FALSE
  /\ logoutsInRow = 0
  /\ missing = {}
  /\ authState = NoAuthState
  /\ header = NoForm
  /\ backupPage = NoRestore
  /\ wallet = NoWallet
  /\ config = NoConfig
  /\ sr = NoCall

NextPair ==
  \E c \in Pair :
       \/ login(c) \/ loginSettles(c)
       \/ deriveWallet(c) \/ getAddress(c)
       \/ deriveEnsured(c) \/ deriveSettles(c) \/ deriveRelogged(c) \/ deriveRetrySettles(c)
       \/ getBackupStatus(c)
       \/ backupSettles(c) \/ backupRelogged(c) \/ backupRetrySettles(c)

SpecPair == InitPair /\ [][NextPair]_vars


(***************************************************************************)
(* part_001: the BuildVerification widget                                  *)
(***************************************************************************)
\* How often React may run the mount effect of one widget (twice under
\* StrictMode).
MaxEffects == 2

Cids == {"cidA", "cidB"}

\* packageJson.dependencies['w3pk']: a version with or without a range
\* prefix; <<>> stands for a package.json without the dependency.
Dependencies ==
  {<<>>, <<"1">>, <<"2">>, <<"^", "1">>, <<"~", "1">>, <<"^", "2">>, <<">", "1">>}

\* The registry: the CID registered for each released version tag.
Registries ==
  [{<<"v", "1">>} -> Cids] \cup [{<<"v", "1">>, <<"v", "2">>} -> Cids]

\* What a rejected promise carries as its message.
Messages == {"", "network error"}

\* getInstalledW3pkVersion: w3pkVersion.replace(/^[~^]/, '')
getInstalledW3pkVersion(w3pkVersion) ==
  IF w3pkVersion # <<>> /\ Head(w3pkVersion) \in {"~", "^"} THEN Tail(w3pkVersion)
  ELSE w3pkVersion

\* The catch and finally blocks of verifyBuild.
VerifyCatch(w, message) ==
  [w EXCEPT !.pc = "done", !.failed = TRUE,
            !.error = IF message # "" THEN message ELSE "Failed to verify build",
            !.isVerified = "false", !.isVerifying = FALSE]

\* The mount effect: verifyBuild up to its first await, unless the ref
\* says it ran before.
verifyBuildEffect_unguarded ==
  /\ verification.effects > 0
  /\ verification' =
       [verification EXCEPT !.effects = @ - 1, !.hasVerified = TRUE, !.isVerifying = TRUE,
                            !.error = "", !.runs = @ + 1, !.pc = "hash"]
  /\ UNCHANGED <<build, isAuthenticated, user, isLoading, isMounted, sdkSession, sdkUser,
                 idb, calls, rec, sdkLogouts, idbClears, abandoned, logoutsInRow, missing,
                 authState, header, backupPage, social>>

verifyBuildEffect ==
  /\ verification.effects > 0
  /\ verification' =
       IF verification.hasVerified THEN [verification EXCEPT !.effects = @ - 1]
       ELSE [verification EXCEPT !.effects = @ - 1, !.hasVerified = TRUE, !.isVerifying = TRUE,
                                 !.error = "", !.runs = @ + 1, !.pc = "hash"]
  /\ UNCHANGED <<build, isAuthenticated, user, isLoading, isMounted, sdkSession, sdkUser,
                 idb, calls, rec, sdkLogouts, idbClears, abandoned, logoutsInRow, missing,
                 authState, header, backupPage, social>>

\* getCurrentBuildHash() settles: the hash and the version are stored and
\* the registry read starts, or the rejection (or the TypeError of a missing
\* dependency) goes to the catch block.
hashSettles ==
  /\ verification.pc = "hash"
  /\ \/ \E hash \in Cids :
          verification' =
            IF verification.dependency = <<>>
            THEN VerifyCatch([verification EXCEPT !.currentHash = hash],
                             "Cannot read properties of undefined")
            ELSE [verification EXCEPT
                    !.currentHash = hash,
                    !.installedVersion = getInstalledW3pkVersion(verification.dependency),
                    !.pc = "registry"]
     \/ \E message \in Messages : verification' = VerifyCatch(verification, message)
  /\ UNCHANGED <<build, isAuthenticated, user, isLoading, isMounted, sdkSession, sdkUser,
                 idb, calls, rec, sdkLogouts, idbClears, abandoned, logoutsInRow, missing,
                 authState, header, backupPage, social>>

\* registry.getCidByVersion(`v${version}`) settles: the CID of the tag (the
\* empty text for a tag the registry does not hold), or a rejection.
getCidByVersion(registry, version) ==
  LET tag == <<"v">> \o version
  IN IF tag \in DOMAIN registry THEN registry[tag] ELSE ""

registrySettles ==
  /\ verification.pc = "registry"
  /\ \/ LET onchainCid == getCidByVersion(verification.registry, verification.installedVersion)
        IN verification' =
             [verification EXCEPT
                !.trustedHash = onchainCid,
                !.isVerified = IF verification.currentHash = onchainCid THEN "true" ELSE "false",
                !.isVerifying = FALSE, !.pc = "done"]
     \/ \E message \in Messages : verification' = VerifyCatch(verification, message)
  /\ UNCHANGED <<build, isAuthenticated, user, isLoading, isMounted, sdkSession, sdkUser,
                 idb, calls, rec, sdkLogouts, idbClears, abandoned, logoutsInRow, missing,
                 authState, header, backupPage, social>>

InitWidget ==
  /\ ProviderAtRest
  /\ header = NoForm
  /\ backupPage = NoRestore
  /\ \E d \in Dependencies, r \in Registries, n \in 1..MaxEffects :
       verification = [NoVerification EXCEPT !.dependency = d, !.registry = r, !.effects = n]

NextWidget == verifyBuildEffect \/ hashSettles \/ registrySettles

SpecWidget == InitWidget /\ [][NextWidget]_vars


(***************************************************************************)
(* Claims                                                                  *)
(***************************************************************************)
Done(c) == calls[c].pc = "done"

\* The operations the spec calls the authenticated-call family.
AuthFamily ==
  {"signMessage", "deriveWallet", "getAddress", "getBackupStatus", "createBackup",
   "setupSocialRecovery", "getStealthKeys", "generateStealthAddressFor"}

\* The operations that have a forced login and retry in the source.
RetryOps == DeriveOps \cup BackupOps

\* SDK errors that say 'unauthenticated / login required'.
UnauthErrors == {eNotAuth, eMustAuth, eLogin}

\* SDK errors that are validation or unrelated failures.
UnrelatedErrors == {eDerive, eGetAddr, eCancel, eOther, eNotAvail, eValue}

\* SDK errors whose message contains one of the retry markers of op, listed
\* by hand from the catch conditions.
RetrySignature(op) ==
  IF op = "deriveWallet" THEN {eNotAuth, eLogin, eCancelLogin, eDerive}
  ELSE IF op = "getAddress" THEN {eNotAuth, eLogin, eCancelLogin, eGetAddr}
  ELSE {eMustAuth, eLogin, eCancelLogin}

\* C1 as stated: for every operation of the authenticated-call family and
\* whatever the SDK session at the start, when the SDK operation fails
\* exactly once with an unauthenticated error and nothing else fails, the
\* call returns the result with the SDK operation invoked exactly twice and
\* w3pk.login() exactly once.
C1_Original ==
  \A c \in Callers :
    (Done(c) /\ calls[c].op \in AuthFamily /\ calls[c].opErr \in UnauthErrors /\ calls[c].nFail = 1)
      => (calls[c].out = "value" /\ calls[c].nOp = 2 /\ calls[c].nLogin = 1)

\* C1 amended: for deriveWallet, getAddress, getBackupStatus and
\* createBackup, when the SDK operation fails exactly once with an error
\* matching the operation's retry markers and nothing else fails, the call
\* returns the result, the SDK operation was invoked exactly twice and the
\* forced login exactly once; login() was invoked once in all, or twice when
\* ensureAuthentication of deriveWallet / getAddress had to log in first.
C1_RetryOnce ==
  \A c \in Callers :
    (Done(c) /\ calls[c].op \in RetryOps /\ calls[c].opErr \in RetrySignature(calls[c].op)
       /\ calls[c].nFail = 1)
      => /\ calls[c].out = "value"
         /\ calls[c].nOp = 2
         /\ calls[c].nForced = 1
         /\ calls[c].nLogin = IF calls[c].op \in DeriveOps /\ ~calls[c].hadSession THEN 2 ELSE 1

\* C1 witness: a deriveWallet call that started with an active session
\* failed once with 'Not authenticated', logged in once and returned the
\* result of the second attempt.
C1_Witness ==
  \E c \in Callers :
    /\ Done(c) /\ calls[c].op = "deriveWallet" /\ calls[c].opErr = eNotAuth
    /\ calls[c].hadSession /\ calls[c].nFail = 1
    /\ calls[c].out = "value" /\ calls[c].nOp = 2 /\ calls[c].nLogin = 1

\* C2 as stated: for deriveWallet, getAddress, getBackupStatus and
\* createBackup, when the SDK operation fails with an error that is not an
\* unauthenticated error (a genuine derivation failure included), the SDK
\* operation is invoked exactly once, no login follows the failure and the
\* error is thrown to the caller.
C2_Original ==
  \A c \in Callers :
    (calls[c].op \in RetryOps /\ calls[c].opErr \in UnrelatedErrors)
      => /\ Done(c) /\ calls[c].nOp = 1 /\ calls[c].nLogin = calls[c].loginsAtFail
         /\ calls[c].out = "threw" /\ calls[c].err = calls[c].opErr

\* C2 amended: the same, for the errors whose message contains none of the
\* operation's retry markers ('Not authenticated', 'login', 'Failed to
\* derive wallet' / 'Failed to get address' for deriveWallet / getAddress;
\* 'Must be authenticated', 'login' for getBackupStatus / createBackup).
C2_NoRetry ==
  \A c \in Callers :
    (calls[c].op \in RetryOps /\ calls[c].opErr \in SdkErrors \ RetrySignature(calls[c].op))
      => /\ Done(c) /\ calls[c].nOp = 1 /\ calls[c].nLogin = calls[c].loginsAtFail
         /\ calls[c].out = "threw" /\ calls[c].err = calls[c].opErr

\* C2 witness: createBackup failed with 'Invalid password' and threw it
\* after one invocation and no login.
C2_Witness ==
  \E c \in Callers :
    /\ Done(c) /\ calls[c].op = "createBackup" /\ calls[c].opErr = eOther
    /\ calls[c].nOp = 1 /\ calls[c].nLogin = 0 /\ calls[c].out = "threw" /\ calls[c].err = eOther

\* The operations the provider exposes as promises.
ProviderOps ==
  {"register", "login", "signMessage", "deriveWallet", "getAddress", "getBackupStatus",
   "createBackup", "restoreFromBackup", "registerWithBackupFile", "setupSocialRecovery",
   "getStealthKeys", "generateStealthAddressFor"}

\* C3: an operation that ends because of an error classified as
\* user-cancelled by isUserCancelledError has created no toast.
C3_CancellationSilence ==
  \A c \in Callers :
    (Done(c) /\ calls[c].op \in ProviderOps /\ calls[c].out \in {"threw", "null"}
       /\ isUserCancelledError(calls[c].err))
      => calls[c].toasts = {}

\* C4: in every reachable state the exposed isAuthenticated (isMounted &&
\* isAuthenticated) being true implies that the exposed user is not null.
C4_AuthenticatedHasUser == ExposedIsAuthenticated => user # NoUser

\* C4 witness: the provider is Authenticated with a user after a login that
\* the SDK answered with a user object, and another state is covered by
\* loginSettles with the callback onAuthStateChanged(true, undefined).
C4_Witness ==
  /\ ExposedIsAuthenticated /\ user \in Users
  /\ \E c \in Callers : calls[c].op = "login" /\ calls[c].out = "value"


\* C5: logout never throws or rejects, and after one or two logout() calls
\* in a row, once the SDK's own logout has settled, the session state is
\* (false, null).
C5_LogoutIdempotent ==
  /\ \A c \in Callers : (Done(c) /\ calls[c].op = "logout") => calls[c].out # "threw"
  /\ (logoutsInRow >= 1 /\ sdkLogouts = 0) => (~isAuthenticated /\ user = NoUser)

\* C6: when logout() has completed (and nothing else has run since), the
\* persistent-session store holds no entries, so that a probe finds none.
C6_LogoutClearsStore == logoutsInRow >= 1 => ~HasPersistentSession(idb)

\* C7: when the SDK reports an active in-memory session at the time
\* checkExistingAuth runs, the recovery ends in that step as Authenticated
\* with the SDK's user, without a probe and without login().
C7_RecoveryPriority ==
  [][(rec.pc = "mounted" /\ rec'.pc # "mounted" /\ sdkSession)
       => (rec'.pc = "done" /\ rec'.probes = 0 /\ rec'.logins = 0
           /\ isAuthenticated' /\ user' = sdkUser /\ user' # NoUser)]_vars

\* C7 witness: the recovery is over without any probe or login and the
\* provider is Authenticated on a build whose probe would throw.
C7_Witness ==
  /\ rec.pc = "done" /\ rec.probes = 0 /\ rec.logins = 0
  /\ ExposedIsAuthenticated /\ user \in Users /\ idb.api = "none"

\* The number of distinct valid shares in shareData: well-formed entries
\* carrying a share of the stored config, counted by share id.
DistinctValid(shareData) ==
  Cardinality({shareData[i].share.id : i \in
     {j \in 1..Len(shareData) : shareData[j].json /\ Genuine(shareData[j].share, config)}})

Recovered == sr.op = "recoverFromGuardians" /\ sr.out = "value"

\* C8 as stated: with a stored config of threshold t, recoverFromGuardians
\* succeeds if and only if the number of distinct valid shares supplied is
\* at least t, and t - 1 shares fail with 'Need at least t shares, got n'.
C8_Original ==
  (sr.op = "recoverFromGuardians" /\ config # NoConfig)
    => /\ Recovered <=> DistinctValid(sr.input) >= config.threshold
       /\ Len(sr.input) = config.threshold - 1
            => sr.err = eNeed(config.threshold, Len(sr.input))

\* The shares secrets.combine uses of shareData: the first entry of every
\* share id.
UsedEntries(shareData) ==
  {i \in 1..Len(shareData) :
     \A j \in 1..(i - 1) : shareData[j].share.id # shareData[i].share.id}

\* C8 amended: with a stored config of threshold t, recoverFromGuardians
\* succeeds if and only if every entry supplied is well-formed and the
\* entries left after dropping repeated share ids are all shares of the
\* stored config and at least t in number; fewer than t entries fail with
\* 'Need at least t shares, got n', and t copies of one share fail.
C8_Threshold ==
  (sr.op = "recoverFromGuardians" /\ config # NoConfig)
    => /\ Recovered <=>
            /\ \A i \in 1..Len(sr.input) : sr.input[i].json
            /\ \A i \in UsedEntries(sr.input) : Genuine(sr.input[i].share, config)
            /\ Cardinality(UsedEntries(sr.input)) >= config.threshold
       /\ Len(sr.input) < config.threshold
            => sr.out = "threw" /\ sr.err = eNeed(config.threshold, Len(sr.input))
       /\ (Len(sr.input) = config.threshold
             /\ \A i \in 1..Len(sr.input) : sr.input[i] = sr.input[1])
            => sr.out = "threw"

\* C8 witness: a recovery from exactly threshold shares succeeded.
C8_Witness ==
  /\ Recovered /\ config # NoConfig
  /\ Len(sr.input) = config.threshold
  /\ DistinctValid(sr.input) = config.threshold

\* C9: recoverFromGuardians returns a result or shows 'Wallet Recovered!'
\* only when the address derived from the reconstructed mnemonic equals,
\* case aside, the ethereumAddress of the config; when a derived address
\* differs the call fails with the mismatch error.
C9_VerifiedAddress ==
  sr.op = "recoverFromGuardians"
    => /\ (sr.out = "value" \/ "Wallet Recovered!" \in sr.toasts)
            => /\ sr.mnemonic \in Phrases
               /\ sr.derived = AddressOf(sr.mnemonic)
               /\ sr.derived.hex = config.ethereumAddress.hex
       /\ (sr.derived # NoAddress /\ sr.derived.hex # config.ethereumAddress.hex)
            => sr.out = "threw" /\ sr.err = eMismatch /\ "Wallet Recovered!" \notin sr.toasts

\* C9 witness: the shares reconstructed another valid mnemonic and the call
\* failed with the mismatch error.
C9_Witness ==
  /\ sr.op = "recoverFromGuardians" /\ sr.err = eMismatch
  /\ sr.derived # NoAddress /\ sr.derived.hex # config.ethereumAddress.hex

\* C10: whenever setupSocialRecovery has split something among guardians,
\* the material is the backup encrypted under a non-empty password, never
\* the raw mnemonic.
C10_SharesFromEncryptedBackup ==
  (sr.op = "setupSocialRecovery" /\ sr.split # "none")
    => (sr.split = "backup" /\ sr.pwd # "")

\* C11: when the 45-second timer fires while w3pk.register is pending,
\* register rejects with the 'Registration timed out' error, the SDK call
\* stays pending and the session is untouched; when w3pk.register settles
\* first, register resolves if it resolved and rejects with its error if it
\* rejected; either way isLoading is false when register ends.
C11_RegistrationTimeout ==
  [][\A c \in Callers :
       (calls[c].pc = "register" /\ calls'[c].pc = "done")
         => /\ ~isLoading'
            /\ IF abandoned'
               THEN /\ calls'[c].out = "threw" /\ calls'[c].err = eTimeout
                    /\ calls'[c].nFail = 0
                    /\ UNCHANGED <<isAuthenticated, user, sdkSession, sdkUser>>
               ELSE \/ calls'[c].out = "value" /\ calls'[c].nFail = 0
                    \/ /\ calls'[c].out = "threw" /\ calls'[c].nFail = 1
                       /\ calls'[c].err = calls'[c].opErr /\ calls'[c].err \in SdkErrors]_vars

\* C11 witness: register has rejected with the timeout error while the SDK
\* registration is still pending.
C11_Witness ==
  \E c \in Callers :
    /\ Done(c) /\ calls[c].op = "register" /\ calls[c].err = eTimeout
    /\ abandoned /\ ~isLoading

\* A step in which caller c starts the operation op.
Starts(c) == Free(c) /\ calls'[c] # calls[c]

\* C12: when user is null, a call of signMessage, deriveWallet, getAddress,
\* getBackupStatus, createBackup, setupSocialRecovery, getStealthKeys or
\* generateStealthAddressFor ends in the step that starts it with the 'not
\* authenticated' outcome (null and the 'Not Authenticated' toast for
\* signMessage, a thrown error for the others), without hasActiveSession,
\* login() or the SDK operation, and leaves the session and isLoading as
\* they were.
C12_FailFast ==
  [][\A c \in Callers :
       (Starts(c) /\ user = NoUser /\ calls'[c].op \in AuthFamily)
         => /\ calls'[c].pc = "done"
            /\ calls'[c].nCheck = 0 /\ calls'[c].nLogin = 0 /\ calls'[c].nOp = 0
            /\ UNCHANGED <<isAuthenticated, user, sdkSession, sdkUser, idb, isLoading>>
            /\ IF calls'[c].op = "signMessage"
               THEN calls'[c].out = "null" /\ calls'[c].toasts = {"Not Authenticated"}
               ELSE calls'[c].out = "threw" /\ calls'[c].err \in {eNoUser, eUserNotAuth}]_vars

\* C12 witness: createBackup was called with no user and threw 'User not
\* authenticated' without an SDK call.
C12_Witness ==
  \E c \in Callers :
    /\ Done(c) /\ calls[c].op = "createBackup" /\ user = NoUser
    /\ calls[c].out = "threw" /\ calls[c].err = eUserNotAuth /\ calls[c].nOp = 0

\* C13: signMessage called while user is null returns null without
\* throwing, shows the 'Not Authenticated' toast, and invokes neither
\* w3pk.signMessage nor login().
C13_SignMessageNull ==
  [][\A c \in Callers :
       (Starts(c) /\ user = NoUser /\ calls'[c].op = "signMessage")
         => /\ calls'[c].pc = "done" /\ calls'[c].out = "null" /\ calls'[c].err = NoErr
            /\ "Not Authenticated" \in calls'[c].toasts
            /\ calls'[c].nOp = 0 /\ calls'[c].nLogin = 0]_vars

\* C13 witness: a signMessage call made with no user has returned null.
C13_Witness ==
  \E c \in Callers :
    /\ Done(c) /\ calls[c].op = "signMessage" /\ user = NoUser /\ ~isAuthenticated
    /\ calls[c].out = "null" /\ calls[c].nCheck = 0 /\ calls[c].toasts = {"Not Authenticated"}

\* The call met an SDK failure that no forced login and retry made good.
Unrecovered(call) == call.nFail >= 1 /\ ~(call.nForced = 1 /\ call.nFail = 1)

FeatureOps ==
  {"getBackupStatus", "createBackup", "restoreFromBackup", "registerWithBackupFile",
   "getStealthKeys", "generateStealthAddressFor"}

\* C15: when the SDK lacks the method an operation needs, a call of the
\* operation (by a signed-in user, where the operation requires one) throws
\* the 'not supported' / 'not available' error at once: no hasActiveSession,
\* no login() and no SDK operation is invoked in the call.
C15_FeatureUnsupported ==
  \A c \in Callers :
    (calls[c].op \in FeatureOps /\ Unsupported(calls[c].op) /\ calls[c].err # eUserNotAuth)
      => /\ Done(c) /\ calls[c].out = "threw"
         /\ calls[c].err \in {eUnsupported(Method(calls[c].op)), eStealthUnavailable}
         /\ calls[c].nCheck = 0 /\ calls[c].nLogin = 0 /\ calls[c].nOp = 0

\* n times the character ch.
Repeat(ch, n) == [i \in 1..n |-> ch]

\* handleRegister has run on the text header.input and has handed it to
\* register().
Accepted == header.clicks = 1 /\ header.registered = <<trim(header.input)>>

\* C16: for a text that is not empty once trimmed, validateUsername accepts
\* exactly when the trimmed text has 3 to 50 characters, each a letter, a
\* digit, '_' or '-', the first and the last a letter or a digit; so
\* 'alice', 'alice-2' and 'a1_b2' are accepted, and a name that starts or
\* ends with '_' or '-' is rejected.
C16_UsernameBoundary ==
  (header.clicks = 1 /\ trim(header.input) # <<>>)
    => LET name == trim(header.input) IN
       /\ Accepted <=> validateUsername(header.input)
       /\ Accepted <=>
            /\ Len(name) \in 3..50
            /\ \A i \in 1..Len(name) : Alnum(name[i]) \/ name[i] \in {"_", "-"}
            /\ Alnum(name[1])
            /\ Alnum(name[Len(name)])
       /\ Len(name) \in {2, 51} => ~Accepted
       /\ (name = Repeat("a", 3) \/ name = Repeat("a", 50)) => Accepted
       /\ name \in {<<"a", "l", "i", "c", "e">>, <<"a", "l", "i", "c", "e", "-", "2">>,
                     <<"a", "1", "_", "b", "2">>} => Accepted
       /\ (name[1] \in {"_", "-"} \/ name[Len(name)] \in {"_", "-"}) => ~Accepted

C16_Witness ==
  /\ Accepted
  /\ Len(header.input) = 52
  /\ trim(header.input) = Repeat("a", 49) \o <<"1">>
  /\ ~header.isUsernameInvalid

\* handleRestorePasswordSubmit has run on the file backupPage.payload and
\* refused it as incompatible: no restoreFromBackup, isRestoring reset.
Refused ==
  /\ backupPage.pc = "done"
  /\ backupPage.toasts = {"Incompatible Backup Version"}
  /\ backupPage.restored = <<>>
  /\ ~backupPage.isRestoring

\* C17 as stated: a payload that parses as a JSON object with no 'version'
\* field but with an 'encrypted' or a 'mnemonic' field is refused with
\* 'Incompatible Backup Version', is never passed to restoreFromBackup, and
\* the flow ends with isRestoring = false.
C17_Original ==
  LET file == backupPage.payload IN
  (/\ backupPage.pc # "idle"
   /\ file.kind = "object"
   /\ file.version = "absent"
   /\ file.encrypted # "absent" \/ file.mnemonic # "absent")
    => Refused

\* C17, amended: a payload that parses as a JSON object with no truthy
\* 'recovery-phrase.txt.enc' entry, no truthy 'version' and a truthy
\* 'encrypted' or 'mnemonic' is refused with 'Incompatible Backup Version',
\* is never passed to restoreFromBackup, and the flow ends with
\* isRestoring = false.
C17_IncompatibleBackup ==
  LET file == backupPage.payload IN
  (/\ backupPage.pc # "idle"
   /\ file.kind = "object"
   /\ file.rpe # "truthy"
   /\ file.version # "truthy"
   /\ file.encrypted = "truthy" \/ file.mnemonic = "truthy")
    => Refused

C17_Witness ==
  /\ Refused
  /\ backupPage.payload.version = "absent"
  /\ backupPage.payload.encrypted = "absent"
  /\ backupPage.payload.mnemonic = "truthy"

\* The last call of W3PK.tsx was generateGuardianInvite; it failed, or it
\* returned an invite.
InviteFailed ==
  /\ sr.op = "generateGuardianInvite" /\ sr.out = "threw"
  /\ sr.err \in {eNotConfigured, eGuardianNotFound}
  /\ sr.shareCode = NoCall.shareCode
InviteReturned == sr.op = "generateGuardianInvite" /\ sr.out = "value"

\* C18: generateGuardianInvite(guardian) fails and returns no invite when
\* no config is stored or the guardian's id matches no guardian of the stored
\* config; it succeeds only for a guardian of the current config, and then
\* the invite's share is that guardian's shareEncrypted, its index the
\* guardian's position in the config, and its threshold, total and address
\* the config's.
C18_GuardianInvite ==
  sr.op = "generateGuardianInvite"
    => LET known == sr.guardian.id \in 1..Len(config.guardians) IN
       /\ (config = NoConfig \/ ~known) => InviteFailed
       /\ InviteReturned
            => /\ config # NoConfig /\ known
               /\ sr.shareCode.guardianIndex = sr.guardian.id
               /\ sr.shareCode.share = sr.guardian.shareEncrypted
               /\ sr.shareCode.threshold = config.threshold
               /\ sr.shareCode.totalGuardians = config.totalGuardians
               /\ sr.shareCode.ethereumAddress = config.ethereumAddress

C18_Witness ==
  /\ InviteReturned
  /\ sr.guardian.id = 2
  /\ sr.shareCode.guardianIndex = 2
  /\ sr.shareCode.share = config.guardians[2]

\* C19: in one call there is at most one forced login() and the SDK
\* operation is invoked at most twice; the forced login is issued in the
\* step in which a failure is caught; the retry starts only in the step in
\* which the forced login() resolved; a failure of the forced login or of
\* the retry ends the call with that error, with no further login or
\* invocation.
C19_BoundedRecovery ==
  [][\A c \in Callers :
       LET old == calls[c]
           new == calls'[c]
       IN
       /\ new.nForced <= 1 /\ new.nOp <= 2
       /\ new.nOp = 2 => new.nForced = 1
       /\ ~Free(c)
            => /\ new.nForced = old.nForced + 1
                    => /\ old.pc \in {"op", "ensure"} /\ new.pc = "relogin"
                       /\ new.nFail = old.nFail + 1 /\ new.nOp = old.nOp
               /\ (old.nForced = 1 /\ new.nOp = old.nOp + 1)
                    => /\ old.pc = "relogin" /\ new.pc = "retry"
                       /\ new.nFail = old.nFail
               /\ (old.nForced = 1 /\ new.nFail = old.nFail + 1)
                    => /\ new.pc = "done" /\ new.out = "threw" /\ new.err \in SdkErrors
                       /\ new.nLogin = old.nLogin /\ new.nOp = old.nOp]_vars

C19_Witness ==
  \E c \in Callers :
    /\ Done(c) /\ calls[c].op = "createBackup" /\ calls[c].out = "threw"
    /\ calls[c].nForced = 1 /\ calls[c].nOp = 2 /\ calls[c].nFail = 2

\* The step in which a call of caller c invokes its SDK operation for the
\* first time.
FirstInvocation(c) == calls'[c].nOp = 1 /\ (Starts(c) \/ calls[c].nOp = 0)

\* C20 as stated, for all eight operations: the SDK operation is first
\* invoked only when the SDK has an active session or in the step in which
\* the login() issued by ensureAuthentication resolved.
C20_Original ==
  [][\A c \in Callers :
       (FirstInvocation(c) /\ calls'[c].op \in AuthFamily)
         => sdkSession' \/ calls[c].pc = "ensure"]_vars

\* C20, amended: for the six operations other than getBackupStatus and
\* createBackup, the SDK operation is first invoked only after the call asked
\* hasActiveSession() once and either got true, or a login() of the call
\* resolved in that step: the login of ensureAuthentication or, in
\* deriveWallet and getAddress, the forced login that follows its failure.
C20_EnsureStep ==
  [][\A c \in Callers :
       (FirstInvocation(c) /\ calls'[c].op \in AuthFamily \ BackupOps)
         => /\ calls'[c].nCheck = 1
            /\ \/ Starts(c) /\ sdkSession /\ calls'[c].nLogin = 0
               \/ ~Free(c) /\ calls[c].pc = "ensure" /\ calls'[c].nLogin = 1
                   /\ calls'[c].nFail = 0
               \/ ~Free(c) /\ calls[c].pc = "relogin" /\ calls'[c].op \in DeriveOps
                   /\ calls'[c].nLogin = 2 /\ calls'[c].nFail = 1]_vars

C20_Witness ==
  \E c \in Callers :
    /\ Done(c) /\ calls[c].op = "signMessage" /\ calls[c].out = "value"
    /\ ~calls[c].hadSession
    /\ calls[c].nCheck = 1 /\ calls[c].nLogin = 1 /\ calls[c].loginsAtOp = 1
    /\ calls[c].nOp = 1

\* The operations whose source calls w3pk.extendSession().
ExtendOps == {"signMessage"} \cup DeriveOps \cup StealthOps

\* C21 as stated, for all eight authenticated operations: a call that
\* returned a result has invoked extendSession() exactly once, a call that
\* failed never.
C21_Original ==
  \A c \in Callers :
    (Done(c) /\ calls[c].op \in AuthFamily)
      => calls[c].nExtend = IF calls[c].out = "value" THEN 1 ELSE 0

\* C21, amended: signMessage, deriveWallet, getAddress, getStealthKeys and
\* generateStealthAddressFor invoke extendSession() exactly once in a call
\* that returns a result (on the first attempt or on the retry), after the
\* successful SDK operation, and never in a call that fails or is still in
\* progress; getBackupStatus, createBackup and setupSocialRecovery never
\* invoke it.
C21_ExtendOnSuccess ==
  \A c \in Callers :
    calls[c].op \in AuthFamily
      => calls[c].nExtend =
           IF Done(c) /\ calls[c].out = "value" /\ calls[c].op \in ExtendOps THEN 1 ELSE 0

C21_Witness ==
  \E c \in Callers :
    /\ Done(c) /\ calls[c].op = "deriveWallet" /\ calls[c].out = "value"
    /\ calls[c].nForced = 1 /\ calls[c].nOp = 2 /\ calls[c].nExtend = 1

\* C22: once the session is Authenticated, no step of the mount-time
\* recovery (the probe answering, its 3 s timeout, the silent login()
\* settling) takes it out of Authenticated.
C22_StaysAuthenticated ==
  [][(isAuthenticated /\ rec' # rec) => isAuthenticated']_vars

C24_SilentRestoreFailure ==
  [][(rec.pc = "login" /\ rec'.pc = "done" /\ rec'.restoreFailed)
       => /\ ~isAuthenticated' /\ user' = NoUser
          /\ UNCHANGED <<calls, sr, header, backupPage>>]_vars

\* C25: duplicate prompts are reachable: an authenticated operation started
\* while the SDK has no active session calls w3pk.login() itself even when
\* a login() of another call is already in flight, so two operations
\* started concurrently have two login() calls pending at once.
C25_DuplicatePrompts ==
  [][\A c \in Pair :
       (/\ Free(c) /\ ~Free(c)'
        /\ calls'[c].op \in DeriveOps
        /\ ~sdkSession)
       => calls'[c].pc = "ensure" /\ calls'[c].nLogin = 1]_vars

C25_Witness ==
  /\ \A c \in Pair : calls[c].op \in DeriveOps /\ calls[c].pc = "ensure" /\ calls[c].nLogin = 1
  /\ ~sdkSession

\* C26: a register() rejected with the timeout error leaves the SDK
\* registration pending, not cancelled; when that registration completes
\* later the callback makes the session Authenticated while the register
\* call stays reported as failed.
TimedOut(call) == call.op = "register" /\ call.pc = "done" /\ call.out = "threw" /\ call.err = eTimeout

C26_AbandonedRegistration ==
  [][/\ \A c \in Callers :
          (calls[c].pc = "register" /\ TimedOut(calls'[c]))
          => abandoned' /\ UNCHANGED <<isAuthenticated, user, sdkSession, sdkUser>>
     /\ (abandoned /\ ~abandoned')
          => /\ UNCHANGED calls
             /\ \/ UNCHANGED <<isAuthenticated, user, sdkSession, sdkUser, idb>>
                \/ /\ sdkSession' /\ sdkUser' \in Users
                   /\ isAuthenticated' /\ user' = sdkUser']_vars

C26_Witness ==
  /\ \E c \in Callers : TimedOut(calls[c])
  /\ ~abandoned
  /\ isAuthenticated /\ user \in Users
  /\ rec.logins = 0

\* C27: every social-recovery config setupSocialRecovery stores has as many
\* guardians as totalGuardians, a threshold between 1 and totalGuardians
\* and one share per guardian; a call whose threshold is 0, negative or
\* greater than the number of guardians stores no config.
BadThreshold(call) ==
  call.op = "setupSocialRecovery" /\ (call.threshold < 1 \/ call.threshold > call.total)

LoadingOps ==
  {"register", "login", "getBackupStatus", "createBackup", "restoreFromBackup",
   "registerWithBackupFile", "setupSocialRecovery"}

InFlight(c) == calls[c].op \in LoadingOps /\ ~Free(c)

C28_LoadingTracksCalls == isLoading <=> \E c \in DOMAIN calls : InFlight(c)

\* C29: with no social-recovery config stored, recoverFromGuardians fails
\* with 'Social recovery not configured' for every set of shares, before
\* any share is parsed or combined: nothing is recovered or derived.
C29_NotConfigured ==
  [][(config = NoConfig /\ sr'.op = "recoverFromGuardians")
       => /\ sr'.out = "threw" /\ sr'.err = eNotConfigured
          /\ sr'.toasts = {"Recovery Failed"}
          /\ sr'.mnemonic = "" /\ sr'.derived = NoAddress
          /\ config' = NoConfig]_vars

C29_Witness ==
  /\ config = NoConfig
  /\ sr.op = "recoverFromGuardians" /\ sr.err = eNotConfigured
  /\ Len(sr.input) = 2
  /\ \A i \in 1..2 : sr.input[i] = Package(Share("wallet", i))

\* C30: the widget reports isVerified = true only when the local build hash
\* equals the CID the registry holds for the installed version; when the
\* hash computation or the registry read fails it ends with isVerified =
\* false, a non-empty error and isVerifying = false; verification runs at
\* most once per mounted widget.
C30_BuildVerification ==
  /\ verification.isVerified = "true"
       => /\ verification.pc = "done" /\ ~verification.failed
          /\ verification.currentHash \in Cids
          /\ LET tag == <<"v">> \o getInstalledW3pkVersion(verification.dependency)
             IN tag \in DOMAIN verification.registry
                  /\ verification.registry[tag] = verification.currentHash
  /\ verification.failed
       => /\ verification.pc = "done"
          /\ verification.isVerified = "false"
          /\ verification.error # ""
          /\ ~verification.isVerifying
  /\ verification.runs <= 1

C30_Witness ==
  /\ verification.isVerified = "true"
  /\ verification.dependency = <<"^", "2">>
  /\ verification.runs = 1 /\ verification.effects = 0 /\ verification.hasVerified

====
